---- MODULE Spec2Model ----
(***************************************************************************)
(* Order-book reconstruction pipeline of deeplook (crates/orderbook):      *)
(*   - the per-pool order-book engine  (orderbook.rs, OrderbookManager),   *)
(*   - the historical replayer         (replay.rs),                        *)
(*   - the live committer that feeds the engine one PoolBatch at a time.   *)
(*                                                                         *)
(* Prices, sizes and checkpoints are i64 in the source; the model keeps    *)
(* them as unbounded integers and draws them from small sets, so no        *)
(* 64-bit overflow is reachable.                                           *)
(***************************************************************************)
EXTENDS Integers, Sequences, FiniteSets, TLC

VARIABLES
    eng,        \* SpecEngine: the OrderbookManager under test
    eng_pre,    \* SpecEngine: that manager before the last call
    eng_call,   \* SpecEngine: the last call made on it (name and arguments)
    eng_calls,  \* SpecEngine: number of calls made so far
    cache,      \* Redis: pool -> <<>> or <<the readable book published last>>
    chain,      \* the checkpoints 1 .. MaxCp, each the sequence of its events
    snapshots,  \* orderbook_snapshots: pool -> latest snapshot row
    order_updates,  \* table order_updates (set of rows)
    order_fills,    \* table order_fills (set of rows)
    committed,  \* persister: pipeline -> checkpoints whose rows are committed
    watermarks, \* table watermarks: pipeline -> {} or {checkpoint_hi_inclusive}
    ob_pc,      \* order-book process: "down", "replay", "live", "no_target"
    managers,   \* OrderbookManagerMap: pool -> manager (<<>> while down)
    replay_start,   \* replayer: start
    replay_target,  \* replayer: target
    replay_next,    \* replayer: first checkpoint of the next window
    live_from,      \* first checkpoint handed to the live ingester
    assembled,  \* live: checkpoint -> <<>> or <<the PoolBatch list of process>>
    committer_hi,   \* live: highest checkpoint the framework has committed
    last_applied_checkpoint,    \* committer state
    in_progress,                \* committer state: {} or {checkpoint}
    last_commit,    \* history: the last commit and the state it started from
    applied,    \* history: pool -> events that passed should_skip_order, in order
    crashed,    \* history: the order-book process has crashed once
    crash_at,   \* history: committer_hi / replay progress when it crashed
    replay_end, \* replayer: the `end` it was started with
    law_m0,     \* SpecLaws: the book before any event of law_events
    law_events, \* SpecLaws: the events to apply (indices into LawUniverse)
    law_left,   \* SpecLaws: the events not applied yet
    law_book,   \* SpecLaws: the book after the batches applied so far
    law_pre,    \* SpecLaws: the book before the last batch
    law_batches,    \* SpecLaws: the batches applied so far, each in its order
    task_m0,    \* SpecTasks: the pool's book when the tasks start
    task_chain, \* SpecTasks: checkpoint -> the pool's updates and fills in it
    task_book,  \* SpecTasks: the pool's OrderbookManager behind its mutex
    task_batch_next,    \* SpecTasks: next checkpoint of the handle_batch caller
    task_fill_cp,       \* SpecTasks: checkpoint OrderbookOrderFillHandler is in
    task_fill_k,        \* SpecTasks: fills of that checkpoint it has applied
    task_last,  \* SpecTasks: the last lock hold: "none", "batch" or "fill"
    trades_list,    \* SpecTrades: the Redis list latest_trades::{pool}
    trades_pushed,  \* SpecTrades: history, every record RPUSH has appended
    trades_pc,      \* SpecTrades: connection -> "idle" or "trim" (inside push)
    trades_last,    \* SpecTrades: outcome of the last step of a push
    trades_read,    \* SpecTrades: <<>> or <<what the last get_array returned>>
    dec_txs,    \* SpecDecode: the transactions of the checkpoint processed
    dec_out,    \* SpecDecode: handler -> <<>> or <<what its process did>>
    tbl_rows,   \* SpecCommit: the rows of the table, in insertion order
    tbl_before, \* SpecCommit: the table before the last commit
    tbl_log,    \* SpecCommit: history, the batches committed so far
    wm_done,    \* SpecWatermark: pipeline -> checkpoints committed
    wm_calls,   \* SpecWatermark: set_committer_watermark calls in flight
    wm_store,   \* SpecWatermark: RuntimeStore.watermarks
    wm_last,    \* SpecWatermark: pipeline and result of the last call made
    pl_m0,      \* SpecPools: pool -> its book before any batch
    pl_batches, \* SpecPools: pool id -> the batches addressed to it, in order
    pl_next,    \* SpecPools: pool id -> number of its batches handled
    pl_managers,    \* SpecPools: the OrderbookManagerMap
    pl_last,    \* SpecPools: <<>> or <<pool id of the last batch, map before>>
    sd_stream,  \* SpecShutdown: the values the framework will hand over
    sd_taken,   \* SpecShutdown: number of values handed to commits so far
    sd_values,  \* SpecShutdown: values of the commit under way, not applied yet
    sd_cs,      \* SpecShutdown: committer state: managers, last_applied, in_progress
    sd_pc,      \* SpecShutdown: the committer: "idle", "commit" or "exited"
    sd_cancel,  \* SpecShutdown: the cancellation signal has been raised
    sd_start,   \* SpecShutdown: history, state and values at the last commit's start
    sd_cancel_at,   \* SpecShutdown: history, <<>> or <<sd_pc, Len(sd_values)>> at the signal
    fx_build,    \* SpecFactors: the build: "debug" or "release"
    fx_base,    \* SpecFactors: pool.base_asset_decimals
    fx_quote,    \* SpecFactors: pool.quote_asset_decimals
    fx_out,    \* SpecFactors: <<>> or <<what OrderbookManager::new did>>
    fx_published,   \* SpecFactors: <<>> or <<the readable level published>>
    su_snapshots,    \* SpecStartup: pool -> <<>> or <<its latest snapshot row>>
    su_pc,    \* SpecStartup: main: "loading", "running" or "panicked"
    su_loaded,    \* SpecStartup: pools the loop of main has gone through
    su_map,    \* SpecStartup: the ob_manager_map built so far
    su_cache,    \* SpecStartup: Redis: pool -> <<>> or <<readable book>>
    su_applied,   \* SpecStartup: batches handed to managers so far
    rs_store,    \* SpecStore: RuntimeStore.watermarks, pipeline -> RuntimeWatermark
    rs_last,    \* SpecStore: the last call, its result and the map before it
    rs_calls,   \* SpecStore: number of calls so far
    ho_updates,    \* SpecHistoric: the rows of order_updates of the pool, in table order
    ho_fills,    \* SpecHistoric: the rows of order_fills of the pool, in table order
    ho_snapshots,    \* SpecHistoric: the rows of orderbook_snapshots of the pool
    ho_last,    \* SpecHistoric: the last store_snapshot call: end, result, table before
    ho_runs,   \* SpecHistoric: number of store_snapshot calls so far
    ws_key,    \* SpecSocket: the value under orderbook::{pool_name}, 0 for no value
    ws_queue,    \* SpecSocket: notifications the subscription holds for the handler
    ws_pc,    \* SpecSocket: where handle_orderbook_socket is
    ws_last_sent,    \* SpecSocket: last_sent, 0 for None
    ws_sent,    \* SpecSocket: the messages sent to the client, in order
    ws_changed,    \* SpecSocket: the key was written after the subscription
    ws_writes    \* SpecSocket: number of writes of the key so far

engine_vars == <<eng, eng_pre, eng_call, eng_calls>>

pipeline_vars ==
    <<chain, snapshots, order_updates, order_fills, committed, watermarks,
      ob_pc, managers, replay_start, replay_target, replay_next, live_from,
      assembled, committer_hi, last_applied_checkpoint, in_progress,
      last_commit, applied, crashed, crash_at, replay_end>>

law_vars == <<law_m0, law_events, law_left, law_book, law_pre, law_batches>>

task_vars ==
    <<task_m0, task_chain, task_book, task_batch_next, task_fill_cp, task_fill_k,
      task_last>>

trade_vars == <<trades_list, trades_pushed, trades_pc, trades_last, trades_read>>

\* The variables of the specifications that stand beside the order-book ones.
decode_vars == <<dec_txs, dec_out>>

commit_vars == <<tbl_rows, tbl_before, tbl_log>>

watermark_vars == <<wm_done, wm_calls, wm_store, wm_last>>

pool_vars == <<pl_m0, pl_batches, pl_next, pl_managers, pl_last>>

shutdown_vars ==
    <<sd_stream, sd_taken, sd_values, sd_cs, sd_pc, sd_cancel, sd_start,
      sd_cancel_at>>

factor_vars == <<fx_build, fx_base, fx_quote, fx_out, fx_published>>

startup_vars == <<su_snapshots, su_pc, su_loaded, su_map, su_cache, su_applied>>

store_vars == <<rs_store, rs_last, rs_calls>>

historic_vars == <<ho_updates, ho_fills, ho_snapshots, ho_last, ho_runs>>

socket_vars == <<ws_key, ws_queue, ws_pc, ws_last_sent, ws_sent, ws_changed, ws_writes>>

side_vars ==
    <<trade_vars, decode_vars, commit_vars, watermark_vars, pool_vars,
      shutdown_vars,
      factor_vars,
      startup_vars,
      store_vars,
      historic_vars,
      socket_vars>>

vars == <<engine_vars, cache, pipeline_vars, law_vars, task_vars, side_vars>>

(***************************************************************************)
(* Bounds and input sets                                                   *)
(***************************************************************************)
\* Number of engine calls explored by SpecEngine.
MaxCalls == 2

\* Last checkpoint of the chain explored by Spec.
MaxCp == 3

\* Checkpoints per replay window: stands for REPLAY_BATCH_SIZE = 2_000, scaled
\* down so that a replay of the chain takes more than one window.
ReplayBatchSize == 2

\* Pools that have an OrderbookManager (pool ids, ordered as the id strings
\* are); pool 3 is a DeepBook pool the process holds no manager for.
ManagedPools == {1, 2}
UnmanagedPool == 3

\* pools.base_asset_decimals / quote_asset_decimals of the managed pools.
PoolDecimals ==
    [p \in ManagedPools |->
        IF p = 1 THEN [base_asset_decimals |-> 9, quote_asset_decimals |-> 6]
        ELSE [base_asset_decimals |-> 6, quote_asset_decimals |-> 6]]

\* The pool whose manager SpecEngine exercises.
EnginePool == CHOOSE p \in ManagedPools : \A q \in ManagedPools : p <= q

Prices == {1000, 1010}
PlacedQtys == {20, 50}
InitialCheckpoints == {100, 101}
EventCheckpoints == {100, 101, 102}

(***************************************************************************)
(* Generic helpers                                                         *)
(***************************************************************************)
RECURSIVE SeqsOf(_)
\* All sequences that enumerate the finite set S once each, in any order
\* (the iteration order of a HashMap is arbitrary).
SeqsOf(S) ==
    IF S = {} THEN {<<>>}
    ELSE UNION {{<<x>> \o s : s \in SeqsOf(S \ {x})} : x \in S}

Range(s) == {s[i] : i \in DOMAIN s}

(***************************************************************************)
(* Order-book engine: orderbook.rs                                         *)
(***************************************************************************)
\* struct Order { size, price }
Order(price, size) == [price |-> price, size |-> size]

\* Index of the first entry of `side` at `price`, 0 when there is none:
\* side.iter_mut().find(|o| o.price == price)
FindOrder(side, price) ==
    IF \E i \in DOMAIN side : side[i].price = price
    THEN CHOOSE i \in DOMAIN side :
            /\ side[i].price = price
            /\ \A j \in DOMAIN side : side[j].price = price => i <= j
    ELSE 0

should_skip_order_off_by_one(m, checkpoint) == m.initial_checkpoint > checkpoint

should_skip_order(m, checkpoint) == m.initial_checkpoint >= checkpoint

\* A mutation of AddToSide: the order is pushed whether or not the side has
\* an entry at the price.
AddToSide_append(side, price, size) == Append(side, Order(price, size))

AddToSide(side, price, size) ==
    LET i == FindOrder(side, price)
    IN  IF i > 0
        THEN [side EXCEPT ![i] = Order(price, side[i].size + size)]
        ELSE Append(side, Order(price, size))

SubFromSide_clamped(side, price, size) ==
    LET i == FindOrder(side, price)
    IN  IF i > 0
        THEN [side EXCEPT ![i] =
                Order(price, IF side[i].size >= size THEN side[i].size - size ELSE 0)]
        ELSE Append(side, Order(price, 0))

SubFromSide(side, price, size) ==
    LET i == FindOrder(side, price)
    IN  IF i > 0
        THEN [side EXCEPT ![i] = Order(price, side[i].size - size)]
        ELSE Append(side, Order(price, 0 - size))

add_order_wrong_side(m, price, size, is_bid) ==
    IF is_bid
    THEN [m EXCEPT !.asks = AddToSide(m.asks, price, size)]
    ELSE [m EXCEPT !.bids = AddToSide(m.bids, price, size)]

add_order(m, price, size, is_bid) ==
    IF is_bid
    THEN [m EXCEPT !.bids = AddToSide(m.bids, price, size)]
    ELSE [m EXCEPT !.asks = AddToSide(m.asks, price, size)]

subtract_order_existing_only(m, price, size, is_bid) ==
    IF FindOrder(IF is_bid THEN m.bids ELSE m.asks, price) = 0
    THEN m
    ELSE IF is_bid
         THEN [m EXCEPT !.bids = SubFromSide(m.bids, price, size)]
         ELSE [m EXCEPT !.asks = SubFromSide(m.asks, price, size)]

subtract_order(m, price, size, is_bid) ==
    IF is_bid
    THEN [m EXCEPT !.bids = SubFromSide(m.bids, price, size)]
    ELSE [m EXCEPT !.asks = SubFromSide(m.asks, price, size)]

handle_fill_taker_side(m, order) ==
    IF should_skip_order(m, order.checkpoint)
    THEN m
    ELSE subtract_order(m, order.price, order.base_quantity, order.taker_is_bid)

handle_fill(m, order) ==
    IF should_skip_order(m, order.checkpoint)
    THEN m
    ELSE subtract_order(m, order.price, order.base_quantity, ~order.taker_is_bid)

handle_update_modified_whole(m, order) ==
    IF should_skip_order(m, order.checkpoint)
    THEN m
    ELSE CASE order.status = "Placed" ->
                add_order(m, order.price, order.quantity, order.is_bid)
           [] order.status = "Canceled" ->
                subtract_order(m, order.price, order.quantity, order.is_bid)
           [] order.status = "Expired" ->
                subtract_order(m, order.price, order.quantity, order.is_bid)
           [] order.status = "Modified" ->
                subtract_order(m, order.price, order.original_quantity, order.is_bid)

handle_update_cancel_clears_level(m, order) ==
    IF should_skip_order(m, order.checkpoint)
    THEN m
    ELSE CASE order.status = "Placed" ->
                add_order(m, order.price, order.quantity, order.is_bid)
           [] order.status = "Canceled" ->
                LET side == IF order.is_bid THEN m.bids ELSE m.asks
                    i == FindOrder(side, order.price)
                IN  subtract_order(m, order.price,
                                   IF i > 0 THEN side[i].size ELSE 0, order.is_bid)
           [] order.status = "Expired" ->
                subtract_order(m, order.price, order.quantity, order.is_bid)
           [] order.status = "Modified" ->
                subtract_order(m, order.price,
                               order.original_quantity - order.quantity, order.is_bid)

handle_update(m, order) ==
    IF should_skip_order(m, order.checkpoint)
    THEN m
    ELSE CASE order.status = "Placed" ->
                add_order(m, order.price, order.quantity, order.is_bid)
           [] order.status = "Canceled" ->
                subtract_order(m, order.price, order.quantity, order.is_bid)
           [] order.status = "Expired" ->
                subtract_order(m, order.price, order.quantity, order.is_bid)
           [] order.status = "Modified" ->
                subtract_order(m, order.price,
                               order.original_quantity - order.quantity, order.is_bid)

SetMin(S) == CHOOSE x \in S : \A y \in S : x <= y
SetMax(S) == CHOOSE x \in S : \A y \in S : x >= y

is_valid_orderbook_touching(m) ==
    LET all_sizes_valid ==
            /\ \A i \in DOMAIN m.asks : m.asks[i].size >= 0
            /\ \A i \in DOMAIN m.bids : m.bids[i].size >= 0
        prices_ok ==
            IF m.asks # <<>> /\ m.bids # <<>>
            THEN SetMin({m.asks[i].price : i \in DOMAIN m.asks})
                    >= SetMax({m.bids[i].price : i \in DOMAIN m.bids})
            ELSE TRUE
    IN  all_sizes_valid /\ prices_ok

is_valid_orderbook(m) ==
    LET all_sizes_valid ==
            /\ \A i \in DOMAIN m.asks : m.asks[i].size >= 0
            /\ \A i \in DOMAIN m.bids : m.bids[i].size >= 0
        prices_ok ==
            IF m.asks # <<>> /\ m.bids # <<>>
            THEN SetMin({m.asks[i].price : i \in DOMAIN m.asks})
                    > SetMax({m.bids[i].price : i \in DOMAIN m.bids})
            ELSE TRUE
    IN  all_sizes_valid /\ prices_ok

NonZero(o) == o.size # 0

remove_zero_orders_asks_only(m) ==
    [m EXCEPT !.asks = SelectSeq(m.asks, NonZero)]

remove_zero_orders(m) ==
    [m EXCEPT !.asks = SelectSeq(m.asks, NonZero),
              !.bids = SelectSeq(m.bids, NonZero)]

RECURSIVE Pow10(_)
Pow10(n) == IF n = 0 THEN 1 ELSE 10 * Pow10(n - 1)

\* OrderbookManager::new: the two scaling factors of a pool.
price_factor(pool) ==
    Pow10(9 - PoolDecimals[pool].base_asset_decimals
            + PoolDecimals[pool].quote_asset_decimals)

size_factor(pool) == Pow10(PoolDecimals[pool].base_asset_decimals)

\* get_readable_orderbook: each entry divided by the pool's factors; a
\* quotient n / d is kept as the pair <<n, d>>.
get_readable_orderbook(m, pool) ==
    LET convert(order) == [price |-> <<order.price, price_factor(pool)>>,
                           size |-> <<order.size, size_factor(pool)>>]
    IN  [asks |-> [i \in DOMAIN m.asks |-> convert(m.asks[i])],
         bids |-> [i \in DOMAIN m.bids |-> convert(m.bids[i])]]

\* update_orderbook: the readable book is written under the pool's key.
update_orderbook(c, m, pool) == [c EXCEPT ![pool] = <<get_readable_orderbook(m, pool)>>]

RECURSIVE ApplyUpdates(_, _)
ApplyUpdates(m, updates) ==
    IF updates = <<>> THEN m
    ELSE ApplyUpdates(handle_update(m, Head(updates)), Tail(updates))

RECURSIVE ApplyFills(_, _)
ApplyFills(m, fills) ==
    IF fills = <<>> THEN m
    ELSE ApplyFills(handle_fill(m, Head(fills)), Tail(fills))

\* The book part of handle_batch: every update, then every fill, then the
\* zero-size levels are removed (the pruned book is what update_orderbook
\* publishes next).
handle_batch(m, updates, fills) ==
    remove_zero_orders(ApplyFills(ApplyUpdates(m, updates), fills))

\* The record handle_batch prints, if any: validity is evaluated before the
\* batch and after the last fill, ahead of remove_zero_orders.
BatchTransition(m, updates, fills) ==
    LET is_valid_before == is_valid_orderbook(m)
        is_valid_after == is_valid_orderbook(ApplyFills(ApplyUpdates(m, updates), fills))
    IN  IF is_valid_before /\ ~is_valid_after THEN "STOPPED_BEING_VALID"
        ELSE IF ~is_valid_before /\ is_valid_after THEN "BECAME_VALID"
        ELSE "none"

(***************************************************************************)
(* SpecEngine: any sequence of handle_update / handle_fill / handle_batch  *)
(* calls on one manager loaded from a snapshot.                            *)
(***************************************************************************)
\* Snapshot sides (price -> size maps of orderbook_snapshots.bids / asks).
SnapshotSides ==
    { <<>>,
      [p \in {1000} |-> 50],
      [p \in {1010} |-> 20],
      [p \in {1000, 1010} |-> 20] }

\* OrderbookManager::new: the two JSON maps become Vec<Order> in HashMap
\* iteration order; initial_checkpoint is the snapshot's checkpoint.
SideVecs(map) ==
    {[i \in DOMAIN s |-> Order(s[i], map[s[i]])] : s \in SeqsOf(DOMAIN map)}

NewManager(asks_map, bids_map, checkpoint) ==
    {[asks |-> a, bids |-> b, initial_checkpoint |-> checkpoint] :
        a \in SideVecs(asks_map), b \in SideVecs(bids_map)}

Update(status, price, quantity, original_quantity, is_bid, checkpoint) ==
    [status |-> status, price |-> price, quantity |-> quantity,
     original_quantity |-> original_quantity, is_bid |-> is_bid,
     checkpoint |-> checkpoint]

Fill(price, base_quantity, taker_is_bid, checkpoint) ==
    [price |-> price, base_quantity |-> base_quantity,
     taker_is_bid |-> taker_is_bid, checkpoint |-> checkpoint]

\* The DeepBook events OrderModified and OrderExpired, reduced to the fields
\* the order book reads.
OrderModified(price, previous_quantity, new_quantity, is_bid) ==
    [price |-> price, previous_quantity |-> previous_quantity,
     new_quantity |-> new_quantity, is_bid |-> is_bid]

OrderExpired(price, original_quantity, base_asset_quantity_canceled, is_bid) ==
    [price |-> price, original_quantity |-> original_quantity,
     base_asset_quantity_canceled |-> base_asset_quantity_canceled,
     is_bid |-> is_bid]

\* process_order_modified: previous_quantity becomes original_quantity and
\* new_quantity becomes quantity.
process_order_modified(order_modified, checkpoint) ==
    Update("Modified", order_modified.price, order_modified.new_quantity,
           order_modified.previous_quantity, order_modified.is_bid, checkpoint)

process_order_expired_original(order_expired, checkpoint) ==
    Update("Expired", order_expired.price, order_expired.original_quantity,
           order_expired.original_quantity, order_expired.is_bid, checkpoint)

\* process_order_expired: base_asset_quantity_canceled becomes quantity.
process_order_expired(order_expired, checkpoint) ==
    Update("Expired", order_expired.price,
           order_expired.base_asset_quantity_canceled,
           order_expired.original_quantity, order_expired.is_bid, checkpoint)

ModifiedEvents == {OrderModified(p, 50, 20, b) : p \in Prices, b \in BOOLEAN}

ExpiredEvents == {OrderExpired(p, 50, 20, b) : p \in Prices, b \in BOOLEAN}

\* OrderUpdate rows as the handlers build them (process_order_placed, ...):
\* Placed carries placed_quantity twice, Canceled carries
\* base_asset_quantity_canceled with the original quantity beside it.
EngineUpdates(c) ==
    {Update("Placed", p, q, q, b, c) : p \in Prices, q \in PlacedQtys, b \in BOOLEAN}
    \cup {Update("Canceled", p, 20, 50, b, c) : p \in Prices, b \in BOOLEAN}
    \cup {process_order_expired(e, c) : e \in ExpiredEvents}
    \cup {process_order_modified(e, c) : e \in ModifiedEvents}

EngineFills(c) ==
    {Fill(p, 20, t, c) : p \in Prices, t \in BOOLEAN}

\* The events offered to handle_batch: a narrower choice, one price level.
BatchUpdates(c) ==
    {u \in EngineUpdates(c) :
        u.price = 1000 /\ u.quantity = 20 /\ u.status \in {"Placed", "Canceled"}}

BatchFills(c) == {f \in EngineFills(c) : f.price = 1000}

NoCall == [op |-> "none", updates |-> <<>>, fills |-> <<>>]

NoCommit == [lo |-> 0, hi |-> 0, managers |-> <<>>, last_applied |-> 0,
             committer_hi |-> 0]

\* The order-book process and the persister before anything has run.
PipelineIdle ==
    /\ order_updates = {}
    /\ order_fills = {}
    /\ committed = [order_update |-> {}, order_fill |-> {}]
    /\ watermarks = [order_update |-> {}, order_fill |-> {}]
    /\ ob_pc = "down"
    /\ managers = <<>>
    /\ replay_start = 0
    /\ replay_target = 0
    /\ replay_next = 0
    /\ live_from = 0
    /\ assembled = [c \in 1..MaxCp |-> <<>>]
    /\ committer_hi = 0
    /\ last_applied_checkpoint = 0
    /\ in_progress = {}
    /\ last_commit = NoCommit
    /\ applied = [p \in ManagedPools |-> <<>>]
    /\ crashed = FALSE
    /\ crash_at = 0
    /\ replay_end = 0

\* SpecTrades before any connection exists.
TradesIdle ==
    /\ trades_list = <<>>
    /\ trades_pushed = <<>>
    /\ trades_pc = <<>>
    /\ trades_last = "none"
    /\ trades_read = <<>>

\* SpecDecode before a checkpoint is handed to the handlers.
DecodeIdle ==
    /\ dec_txs = <<>>
    /\ dec_out = <<>>

\* SpecCommit before the table exists.
CommitIdle ==
    /\ tbl_rows = <<>>
    /\ tbl_before = <<>>
    /\ tbl_log = <<>>

\* SpecWatermark before the store exists.
WatermarkIdle ==
    /\ wm_done = <<>>
    /\ wm_calls = {}
    /\ wm_store = <<>>
    /\ wm_last = <<>>

\* SpecPools before the map is built.
PoolsIdle ==
    /\ pl_m0 = <<>>
    /\ pl_batches = <<>>
    /\ pl_next = <<>>
    /\ pl_managers = <<>>
    /\ pl_last = <<>>

\* SpecShutdown before the committer exists.
ShutdownIdle ==
    /\ sd_stream = <<>>
    /\ sd_taken = 0
    /\ sd_values = <<>>
    /\ sd_cs = <<>>
    /\ sd_pc = "idle"
    /\ sd_cancel = FALSE
    /\ sd_start = <<>>
    /\ sd_cancel_at = <<>>

\* SpecFactors before a pool is read.
FactorsIdle ==
    /\ fx_build = "release"
    /\ fx_base = 0
    /\ fx_quote = 0
    /\ fx_out = <<>>
    /\ fx_published = <<>>

\* SpecStartup before main runs.
StartupIdle ==
    /\ su_snapshots = <<>>
    /\ su_pc = "loading"
    /\ su_loaded = 0
    /\ su_map = <<>>
    /\ su_cache = <<>>
    /\ su_applied = 0

\* SpecStore before any call.
StoreIdle ==
    /\ rs_store = <<>>
    /\ rs_last = <<>>
    /\ rs_calls = 0

\* SpecHistoric before update_snapshots runs.
HistoricIdle ==
    /\ ho_updates = <<>>
    /\ ho_fills = <<>>
    /\ ho_snapshots = <<>>
    /\ ho_last = <<>>
    /\ ho_runs = 0

\* SpecSocket before any connection.
SocketIdle ==
    /\ ws_key = 0
    /\ ws_queue = 0
    /\ ws_pc = "none"
    /\ ws_last_sent = 0
    /\ ws_sent = <<>>
    /\ ws_changed = FALSE
    /\ ws_writes = 0

SideIdle ==
    /\ TradesIdle
    /\ DecodeIdle
    /\ CommitIdle
    /\ WatermarkIdle
    /\ PoolsIdle
    /\ ShutdownIdle
    /\ FactorsIdle
    /\ StartupIdle
    /\ StoreIdle
    /\ HistoricIdle
    /\ SocketIdle

\* SpecLaws before it is given anything to apply.
LawIdle ==
    /\ law_m0 = [asks |-> <<>>, bids |-> <<>>, initial_checkpoint |-> 0]
    /\ law_events = {}
    /\ law_left = {}
    /\ law_book = law_m0
    /\ law_pre = law_m0
    /\ law_batches = <<>>

\* SpecTasks before any task exists.
TasksIdle ==
    /\ task_m0 = [asks |-> <<>>, bids |-> <<>>, initial_checkpoint |-> 0]
    /\ task_chain = <<>>
    /\ task_book = task_m0
    /\ task_batch_next = 0
    /\ task_fill_cp = 0
    /\ task_fill_k = 0
    /\ task_last = "none"

EngineInit ==
    /\ cache = [p \in ManagedPools |-> <<>>]
    /\ chain = <<>>
    /\ snapshots = <<>>
    /\ PipelineIdle
    /\ LawIdle
    /\ TasksIdle
    /\ SideIdle
    /\ \E a \in SnapshotSides, b \in SnapshotSides, c \in InitialCheckpoints :
            eng \in NewManager(a, b, c)
    /\ eng_pre = eng
    /\ eng_call = NoCall
    /\ eng_calls = 0

CallHandleUpdate ==
    /\ eng_calls < MaxCalls
    /\ \E c \in EventCheckpoints : \E u \in EngineUpdates(c) :
        /\ eng' = handle_update(eng, u)
        /\ eng_call' = [op |-> "handle_update", updates |-> <<u>>, fills |-> <<>>]
    /\ eng_pre' = eng
    /\ eng_calls' = eng_calls + 1
    /\ UNCHANGED <<cache, pipeline_vars, law_vars, task_vars, side_vars>>

CallHandleFill ==
    /\ eng_calls < MaxCalls
    /\ \E c \in EventCheckpoints : \E f \in EngineFills(c) :
        /\ eng' = handle_fill(eng, f)
        /\ eng_call' = [op |-> "handle_fill", updates |-> <<>>, fills |-> <<f>>]
    /\ eng_pre' = eng
    /\ eng_calls' = eng_calls + 1
    /\ UNCHANGED <<cache, pipeline_vars, law_vars, task_vars, side_vars>>

\* A batch holds the events of one (checkpoint, pool).
CallHandleBatch ==
    /\ eng_calls < MaxCalls
    /\ \E c \in EventCheckpoints :
        \E us \in {<<>>} \cup {<<u>> : u \in BatchUpdates(c)},
           fs \in {<<>>} \cup {<<f>> : f \in BatchFills(c)} :
            /\ eng' = handle_batch(eng, us, fs)
            /\ eng_call' = [op |-> "handle_batch", updates |-> us, fills |-> fs]
    /\ cache' = update_orderbook(cache, eng', EnginePool)
    /\ eng_pre' = eng
    /\ eng_calls' = eng_calls + 1
    /\ UNCHANGED <<pipeline_vars, law_vars, task_vars, side_vars>>

EngineNext == CallHandleUpdate \/ CallHandleFill \/ CallHandleBatch

SpecEngine == EngineInit /\ [][EngineNext]_vars

(***************************************************************************)
(* Reading a book as the price -> size mapping it stands for               *)
(***************************************************************************)
RECURSIVE SizeAt(_, _)
\* Total size held at `price` by the entries of `side` (0 when there is none).
SizeAt(side, price) ==
    IF side = <<>> THEN 0
    ELSE (IF Head(side).price = price THEN Head(side).size ELSE 0)
            + SizeAt(Tail(side), price)

PricesOf(side) == {side[i].price : i \in DOMAIN side}

\* The two sides hold the same size at every price.
SameLevels(a, b) ==
    \A p \in PricesOf(a) \cup PricesOf(b) : SizeAt(a, p) = SizeAt(b, p)

\* The two sides hold the same size at every price other than `price`.
SameLevelsExcept(a, b, price) ==
    \A p \in (PricesOf(a) \cup PricesOf(b)) \ {price} : SizeAt(a, p) = SizeAt(b, p)

\* `post` is `pre` with only the entry at `price` touched: rewritten in place
\* when `pre` has one, appended at the end otherwise.
OnlyLevelTouched(pre, post, price) ==
    LET i == FindOrder(pre, price)
    IN  IF i > 0
        THEN /\ Len(post) = Len(pre)
             /\ post[i].price = price
             /\ \A j \in DOMAIN pre : j # i => post[j] = pre[j]
        ELSE /\ Len(post) = Len(pre) + 1
             /\ post[Len(post)].price = price
             /\ \A j \in DOMAIN pre : post[j] = pre[j]

SideOf(m, is_bid) == IF is_bid THEN m.bids ELSE m.asks

CallEvents == Range(eng_call.updates) \cup Range(eng_call.fills)

(***************************************************************************)
(* The chain: checkpoints, transactions, events                            *)
(***************************************************************************)
UpdateKinds == {"Placed", "Modified", "Canceled", "Expired"}

\* One DeepBook event of a checkpoint: `tx` is the position of its
\* transaction in the checkpoint, `d` tells the transaction digests of one
\* checkpoint apart (digests are hashes: their order is unrelated to `tx`),
\* `index` is the event's position in the transaction's event list.  For a
\* Filled event `is_bid` is taker_is_bid and `qty` is base_quantity.
Ev(tx, d, index, kind, pool, price, qty, orig, is_bid) ==
    [tx |-> tx, d |-> d, index |-> index, kind |-> kind, pool |-> pool,
     price |-> price, qty |-> qty, orig |-> orig, is_bid |-> is_bid]

\* The contents a checkpoint may have, events in checkpoint order:
\*   - nothing for DeepBook;
\*   - a taker transaction on pool 1 whose fill comes before its placement,
\*     and an event of the pool without a manager;
\*   - two transactions whose digests sort against their positions, both
\*     placing on pool 1, the second one also on pool 2.
CheckpointContents ==
    { <<>>,
      << Ev(1, 1, 0, "Filled", 1, 1000, 20, 20, FALSE),
         Ev(1, 1, 1, "Placed", 1, 1010, 20, 20, FALSE),
         Ev(1, 1, 2, "Placed", UnmanagedPool, 1000, 20, 20, TRUE) >>,
      << Ev(1, 2, 0, "Placed", 1, 1000, 50, 50, TRUE),
         Ev(2, 1, 0, "Canceled", 1, 1000, 20, 50, TRUE),
         Ev(2, 1, 1, "Placed", 2, 1000, 50, 50, TRUE) >> }

\* The digest of transaction `d` of checkpoint c.
Digest(c, d) == 10 * c + d

\* event_digest = format!("{digest}{index}"): the digest followed by the index.
EventDigest(digest, index) == <<digest, index>>

\* event_index: the index parsed back from an event_digest, 0 when the
\* event_digest does not start with the digest.
event_index(digest, event_digest) ==
    IF event_digest[1] = digest THEN event_digest[2] ELSE 0

\* The OrderUpdate built from a Placed / Modified / Canceled / Expired event.
OrderUpdateOf(c, e) ==
    [event_digest |-> EventDigest(Digest(c, e.d), e.index),
     digest |-> Digest(c, e.d), checkpoint |-> c, status |-> e.kind,
     pool_id |-> e.pool, price |-> e.price, is_bid |-> e.is_bid,
     original_quantity |-> e.orig, quantity |-> e.qty]

\* The OrderFill built from a Filled event.
OrderFillOf(c, e) ==
    [event_digest |-> EventDigest(Digest(c, e.d), e.index),
     digest |-> Digest(c, e.d), checkpoint |-> c,
     pool_id |-> e.pool, price |-> e.price, taker_is_bid |-> e.is_bid,
     base_quantity |-> e.qty]

RECURSIVE DecodeUpdates(_, _, _)
\* The updates of pool p among the events evs of checkpoint c, in event order.
DecodeUpdates(c, evs, p) ==
    IF evs = <<>> THEN <<>>
    ELSE LET e == Head(evs)
             rest == DecodeUpdates(c, Tail(evs), p)
         IN  IF e.kind \in UpdateKinds /\ e.pool = p
             THEN <<OrderUpdateOf(c, e)>> \o rest
             ELSE rest

RECURSIVE DecodeFills(_, _, _)
\* The fills of pool p among the events evs of checkpoint c, in event order.
DecodeFills(c, evs, p) ==
    IF evs = <<>> THEN <<>>
    ELSE LET e == Head(evs)
             rest == DecodeFills(c, Tail(evs), p)
         IN  IF e.kind = "Filled" /\ e.pool = p
             THEN <<OrderFillOf(c, e)>> \o rest
             ELSE rest

PoolBatch(c, p, updates, fills) ==
    [checkpoint |-> c, pool_id |-> p, updates |-> updates, fills |-> fills]

\* process: the events of one checkpoint grouped per pool, each group in
\* transaction-then-index order; the pools come in HashMap order.
process(c) ==
    LET pools == {chain[c][i].pool : i \in DOMAIN chain[c]}
    IN  {[i \in DOMAIN s |->
            PoolBatch(c, s[i], DecodeUpdates(c, chain[c], s[i]),
                      DecodeFills(c, chain[c], s[i]))] :
         s \in SeqsOf(pools)}

(***************************************************************************)
(* Applying batches to the managers                                        *)
(***************************************************************************)
\* What handle_batch lets through should_skip_order, updates then fills.
BatchLog(m, b, via) ==
    LET upd == SelectSeq(b.updates, LAMBDA u : ~should_skip_order(m, u.checkpoint))
        fil == SelectSeq(b.fills, LAMBDA f : ~should_skip_order(m, f.checkpoint))
    IN  [i \in DOMAIN upd |->
            [checkpoint |-> upd[i].checkpoint, digest |-> upd[i].digest,
             index |-> event_index(upd[i].digest, upd[i].event_digest),
             kind |-> "update", via |-> via]]
        \o
        [i \in DOMAIN fil |->
            [checkpoint |-> fil[i].checkpoint, digest |-> fil[i].digest,
             index |-> event_index(fil[i].digest, fil[i].event_digest),
             kind |-> "fill", via |-> via]]

\* if let Some(manager) = orderbook_managers.get(&pool_id)
\*     { locked.handle_batch(updates, fills) }
\* on the state st = [managers, cache, applied].
ApplyBatch(st, b, via) ==
    IF b.pool_id \in DOMAIN st.managers
    THEN LET m == st.managers[b.pool_id]
             m2 == handle_batch(m, b.updates, b.fills)
         IN  [managers |-> [st.managers EXCEPT ![b.pool_id] = m2],
              cache |-> update_orderbook(st.cache, m2, b.pool_id),
              applied |-> [st.applied EXCEPT ![b.pool_id] = @ \o BatchLog(m, b, via)]]
    ELSE st

RECURSIVE ApplyBatches(_, _, _)
ApplyBatches(st, batches, via) ==
    IF batches = <<>> THEN st
    ELSE ApplyBatches(ApplyBatch(st, Head(batches), via), Tail(batches), via)

(***************************************************************************)
(* Historical replayer: replay.rs                                          *)
(***************************************************************************)
Min2(a, b) == IF a <= b THEN a ELSE b
Max2(a, b) == IF a >= b THEN a ELSE b

\* get_unique_pool_ids: the pool ids of the managers.
get_unique_pool_ids(ms) == DOMAIN ms

\* get_lowest_manager_checkpoint: the smallest initial_checkpoint.
get_lowest_manager_checkpoint(ms) ==
    SetMin({ms[p].initial_checkpoint : p \in DOMAIN ms})

get_replay_upper_checkpoint_max(w) ==
    IF w.order_update # {} /\ w.order_fill # {}
    THEN {SetMax(w.order_update \cup w.order_fill)}
    ELSE {}

\* get_replay_upper_checkpoint: Some(min of the two watermarks) when both
\* pipelines have a watermark row, None otherwise.
get_replay_upper_checkpoint(w) ==
    IF w.order_update # {} /\ w.order_fill # {}
    THEN {SetMin(w.order_update \cup w.order_fill)}
    ELSE {}

RowsInRange_exclusive(table, pool_ids, start_checkpoint, end_checkpoint) ==
    {r \in table : /\ r.pool_id \in pool_ids
                   /\ r.checkpoint > start_checkpoint
                   /\ r.checkpoint <= end_checkpoint}

\* A mutation of RowsInRange: a window also loads the checkpoint before its
\* first one.
RowsInRange_overlapping(table, pool_ids, start_checkpoint, end_checkpoint) ==
    {r \in table : /\ r.pool_id \in pool_ids
                   /\ r.checkpoint >= start_checkpoint - 1
                   /\ r.checkpoint <= end_checkpoint}

\* The rows a window loads: pool_id = ANY(pool_ids) and
\* start_checkpoint <= checkpoint <= end_checkpoint.
RowsInRange(table, pool_ids, start_checkpoint, end_checkpoint) ==
    {r \in table : /\ r.pool_id \in pool_ids
                   /\ r.checkpoint >= start_checkpoint
                   /\ r.checkpoint <= end_checkpoint}

\* The comparator of both sort_by calls:
\* (checkpoint, pool_id, digest, event_index).
RowBefore(a, b) ==
    LET ia == event_index(a.digest, a.event_digest)
        ib == event_index(b.digest, b.event_digest)
    IN  \/ a.checkpoint < b.checkpoint
        \/ a.checkpoint = b.checkpoint /\ a.pool_id < b.pool_id
        \/ a.checkpoint = b.checkpoint /\ a.pool_id = b.pool_id /\ a.digest < b.digest
        \/ a.checkpoint = b.checkpoint /\ a.pool_id = b.pool_id /\ a.digest = b.digest
            /\ ia <= ib

RECURSIVE SortRows(_)
\* The loaded rows sorted with RowBefore.
SortRows(rows) ==
    IF rows = {} THEN <<>>
    ELSE LET first == CHOOSE r \in rows : \A q \in rows : RowBefore(r, q)
         IN  <<first>> \o SortRows(rows \ {first})

BatchKeyBefore_descending(a, b) ==
    \/ a[1] > b[1]
    \/ a[1] = b[1] /\ a[2] <= b[2]

\* The order in which the (checkpoint, pool) groups are visited: checkpoints
\* ascending (BTreeSet), the pools of one checkpoint sorted.
BatchKeyBefore(a, b) ==
    \/ a[1] < b[1]
    \/ a[1] = b[1] /\ a[2] <= b[2]

RECURSIVE SortBatchKeys(_)
SortBatchKeys(keys) ==
    IF keys = {} THEN <<>>
    ELSE LET first == CHOOSE k \in keys : \A q \in keys : BatchKeyBefore(k, q)
         IN  <<first>> \o SortBatchKeys(keys \ {first})

\* The sub-batches of a window: one per (checkpoint, pool) that has a row,
\* each holding its rows in sorted order.
ReplayBatches(updates, fills) ==
    LET keys == {<<r.checkpoint, r.pool_id>> : r \in Range(updates) \cup Range(fills)}
        order == SortBatchKeys(keys)
    IN  [i \in DOMAIN order |->
            PoolBatch(order[i][1], order[i][2],
                SelectSeq(updates, LAMBDA u : u.checkpoint = order[i][1]
                                              /\ u.pool_id = order[i][2]),
                SelectSeq(fills, LAMBDA f : f.checkpoint = order[i][1]
                                            /\ f.pool_id = order[i][2]))]

apply_range_updates_only(st, pool_ids, start_checkpoint, end_checkpoint) ==
    IF start_checkpoint > end_checkpoint \/ pool_ids = {}
    THEN st
    ELSE LET update_rows == RowsInRange(order_updates, pool_ids,
                                        start_checkpoint, end_checkpoint)
             known == {r \in update_rows : r.status \in UpdateKinds}
         IN  ApplyBatches(st, ReplayBatches(SortRows(known), <<>>), "replay")

\* apply_range on the state st = [managers, cache, applied].
apply_range(st, pool_ids, start_checkpoint, end_checkpoint) ==
    IF start_checkpoint > end_checkpoint \/ pool_ids = {}
    THEN st
    ELSE LET update_rows == RowsInRange(order_updates, pool_ids,
                                        start_checkpoint, end_checkpoint)
             known == {r \in update_rows : r.status \in UpdateKinds}
             fill_rows == RowsInRange(order_fills, pool_ids,
                                      start_checkpoint, end_checkpoint)
         IN  ApplyBatches(st, ReplayBatches(SortRows(known), SortRows(fill_rows)),
                          "replay")

(***************************************************************************)
(* Live committer                                                          *)
(***************************************************************************)
KeepValue_inclusive(v, last_applied) == v.checkpoint >= last_applied

KeepValue_next_only(v, last_applied) == v.checkpoint = last_applied + 1

\* A value is applied when its checkpoint is above last_applied_checkpoint
\* and discarded otherwise.
KeepValue(v, last_applied) == v.checkpoint > last_applied

CommitValues_unfiltered(cs, values) ==
    [st |-> ApplyBatches(cs.st, values, "live"),
     last_applied |-> SetMax({cs.last_applied}
                             \cup {values[i].checkpoint : i \in DOMAIN values}),
     in_progress |-> IF values = <<>> THEN cs.in_progress
                     ELSE {values[Len(values)].checkpoint}]

RECURSIVE CommitValues_unfinalized(_, _)
\* A mutation of CommitValues: the end of the commit leaves
\* last_applied_checkpoint where the last change of checkpoint put it.
CommitValues_unfinalized(cs, values) ==
    IF values = <<>> THEN cs
    ELSE LET v == Head(values)
         IN  IF ~KeepValue(v, cs.last_applied)
             THEN CommitValues_unfinalized(cs, Tail(values))
             ELSE LET la == IF cs.in_progress # {v.checkpoint} /\ cs.in_progress # {}
                            THEN SetMax(cs.in_progress) ELSE cs.last_applied
                  IN  CommitValues_unfinalized(
                            [st |-> ApplyBatch(cs.st, v, "live"),
                             last_applied |-> la,
                             in_progress |-> {v.checkpoint}],
                            Tail(values))

RECURSIVE CommitValues(_, _)
\* The committer over the values of one commit, on
\* cs = [st, last_applied, in_progress]: a discarded value changes nothing;
\* a value of another checkpoint than in_progress first marks in_progress
\* complete; the value is applied; after the last value last_applied is
\* brought to in_progress.
CommitValues(cs, values) ==
    IF values = <<>>
    THEN [cs EXCEPT !.last_applied =
            IF cs.in_progress = {} THEN @ ELSE SetMax(cs.in_progress)]
    ELSE LET v == Head(values)
         IN  IF ~KeepValue(v, cs.last_applied)
             THEN CommitValues(cs, Tail(values))
             ELSE LET la == IF cs.in_progress # {v.checkpoint} /\ cs.in_progress # {}
                            THEN SetMax(cs.in_progress) ELSE cs.last_applied
                  IN  CommitValues([st |-> ApplyBatch(cs.st, v, "live"),
                                    last_applied |-> la,
                                    in_progress |-> {v.checkpoint}],
                                   Tail(values))

RECURSIVE ValuesOf(_, _, _)
\* The values of the checkpoints lo .. hi as the framework hands them to one
\* commit: checkpoint after checkpoint.
ValuesOf(asm, lo, hi) ==
    IF lo > hi THEN <<>> ELSE asm[lo][1] \o ValuesOf(asm, lo + 1, hi)

(***************************************************************************)
(* Spec: the persister pipelines, and the order-book process from start-up *)
(* through replay into live ingestion, with one crash and restart.         *)
(***************************************************************************)
\* The latest orderbook_snapshots row of each managed pool.
SnapshotTables ==
    { [p \in ManagedPools |->
            IF p = 1 THEN [checkpoint |-> 0, asks |-> <<>>, bids |-> <<>>]
            ELSE [checkpoint |-> 1, asks |-> <<>>, bids |-> [q \in {1000} |-> 50]]],
      [p \in ManagedPools |->
            IF p = 1 THEN [checkpoint |-> 1, asks |-> [q \in {1010} |-> 20],
                           bids |-> [q \in {1000} |-> 50]]
            ELSE [checkpoint |-> 1, asks |-> <<>>, bids |-> <<>>]] }

Init ==
    /\ eng = [asks |-> <<>>, bids |-> <<>>, initial_checkpoint |-> 0]
    /\ eng_pre = eng
    /\ eng_call = NoCall
    /\ eng_calls = 0
    /\ cache = [p \in ManagedPools |-> <<>>]
    /\ chain \in [1..MaxCp -> CheckpointContents]
    /\ snapshots \in SnapshotTables
    /\ PipelineIdle
    /\ LawIdle
    /\ TasksIdle
    /\ SideIdle

\* A mutation of PipelineHi: the highest checkpoint committed.
PipelineHi_highest(done) == SetMax({0} \cup done)

\* checkpoint_hi_inclusive of a pipeline: the highest checkpoint below which
\* every checkpoint is committed (0 when checkpoint 1 is not).
PipelineHi(done) == SetMax({0} \cup {k \in 1..MaxCp : \A j \in 1..k : j \in done})

WatermarkRow(done) == IF PipelineHi(done) = 0 THEN {} ELSE {PipelineHi(done)}

\* The order_update pipeline commits the rows of its next checkpoint (insert,
\* on conflict do nothing) and advances its watermark.  The order-book
\* process reads the persister's tables only at start-up and during replay,
\* and only up to the watermarks it read at start-up, so the persister is
\* stepped while that process is down.
PersistUpdates ==
    /\ ob_pc = "down"
    /\ \E c \in (1..MaxCp) \ committed.order_update :
        /\ c = PipelineHi(committed.order_update) + 1
        /\ order_updates' = order_updates \cup
                {OrderUpdateOf(c, e) : e \in {x \in Range(chain[c]) : x.kind \in UpdateKinds}}
        /\ committed' = [committed EXCEPT !.order_update = @ \cup {c}]
        /\ watermarks' = [watermarks EXCEPT
                !.order_update = WatermarkRow(committed.order_update \cup {c})]
    /\ UNCHANGED <<engine_vars, law_vars, task_vars, side_vars, cache, chain, snapshots, order_fills, ob_pc, managers,
                   replay_start, replay_target, replay_next, live_from, assembled,
                   committer_hi, last_applied_checkpoint, in_progress, last_commit,
                   applied, crashed, crash_at, replay_end>>

\* The order_fill pipeline, likewise.
PersistFills ==
    /\ ob_pc = "down"
    /\ \E c \in (1..MaxCp) \ committed.order_fill :
        /\ c = PipelineHi(committed.order_fill) + 1
        /\ order_fills' = order_fills \cup
                {OrderFillOf(c, e) : e \in {x \in Range(chain[c]) : x.kind = "Filled"}}
        /\ committed' = [committed EXCEPT !.order_fill = @ \cup {c}]
        /\ watermarks' = [watermarks EXCEPT
                !.order_fill = WatermarkRow(committed.order_fill \cup {c})]
    /\ UNCHANGED <<engine_vars, law_vars, task_vars, side_vars, cache, chain, snapshots, order_updates, ob_pc, managers,
                   replay_start, replay_target, replay_next, live_from, assembled,
                   committer_hi, last_applied_checkpoint, in_progress, last_commit,
                   applied, crashed, crash_at, replay_end>>

\* One manager per pool, each loaded from the pool's latest snapshot.
LoadManagers ==
    {ms \in [ManagedPools -> UNION {NewManager(snapshots[p].asks, snapshots[p].bids,
                                               snapshots[p].checkpoint) :
                                    p \in ManagedPools}] :
        \A p \in ManagedPools :
            ms[p] \in NewManager(snapshots[p].asks, snapshots[p].bids,
                                 snapshots[p].checkpoint)}

\* Start-up of the order-book process: the managers are built, then the
\* replayer computes start and target.  With target <= start there is
\* nothing to replay; the live ingester starts at target + 1.  What start-up
\* does when a pipeline has no watermark row yet is not described: the
\* process then stays in "no_target".
Startup ==
    /\ ob_pc = "down"
    /\ \E ms \in LoadManagers, end \in 0..MaxCp :
        LET start == get_lowest_manager_checkpoint(ms)
            upper == get_replay_upper_checkpoint(watermarks)
            target == Min2(end, SetMin(upper))
        IN  /\ managers' = ms
            /\ replay_end' = end
            /\ IF upper = {}
               THEN /\ ob_pc' = "no_target"
                    /\ UNCHANGED <<replay_start, replay_target, replay_next, live_from,
                                   committer_hi, last_applied_checkpoint>>
               ELSE /\ replay_start' = start
                    /\ replay_target' = target
                    /\ replay_next' = start + 1
                    /\ live_from' = target + 1
                    /\ committer_hi' = target
                    /\ last_applied_checkpoint' = target
                    /\ ob_pc' = IF target <= start THEN "live" ELSE "replay"
    /\ UNCHANGED <<engine_vars, law_vars, task_vars, side_vars, cache, chain, snapshots, order_updates, order_fills,
                   committed, watermarks, assembled, in_progress, last_commit,
                   applied, crashed, crash_at>>

\* One window of the replay loop: apply_range over at most ReplayBatchSize
\* checkpoints; after the window that reaches target the process goes live.
ReplayWindow ==
    /\ ob_pc = "replay"
    /\ LET window_end == Min2(replay_next + ReplayBatchSize - 1, replay_target)
           st == apply_range([managers |-> managers, cache |-> cache, applied |-> applied],
                             get_unique_pool_ids(managers), replay_next, window_end)
       IN  /\ managers' = st.managers
           /\ cache' = st.cache
           /\ applied' = st.applied
           /\ replay_next' = window_end + 1
           /\ ob_pc' = IF window_end = replay_target THEN "live" ELSE "replay"
    /\ UNCHANGED <<engine_vars, law_vars, task_vars, side_vars, chain, snapshots, order_updates, order_fills, committed,
                   watermarks, replay_start, replay_target, live_from, assembled,
                   committer_hi, last_applied_checkpoint, in_progress, last_commit,
                   crashed, crash_at, replay_end>>

\* The live ingester assembles the PoolBatch list of one checkpoint; the
\* checkpoints are assembled in any order, up to two ahead of the committer.
Process ==
    /\ ob_pc = "live"
    /\ \E c \in live_from..Min2(MaxCp, committer_hi + 2) :
        /\ assembled[c] = <<>>
        /\ \E values \in process(c) :
            assembled' = [assembled EXCEPT ![c] = <<values>>]
    /\ UNCHANGED <<engine_vars, law_vars, task_vars, side_vars, cache, chain, snapshots, order_updates, order_fills,
                   committed, watermarks, ob_pc, managers, replay_start, replay_target,
                   replay_next, live_from, committer_hi, last_applied_checkpoint,
                   in_progress, last_commit, applied, crashed, crash_at, replay_end>>

\* One commit: the framework hands the committer the values of the
\* checkpoints lo .. hi, never leaving a checkpoint out (lo is at most one
\* above what it has committed); a lo at or below that is a batch, or part
\* of one, delivered again.
Commit ==
    /\ ob_pc = "live"
    /\ \E lo \in live_from..(committer_hi + 1) : \E hi \in lo..MaxCp :
        /\ \A c \in lo..hi : assembled[c] # <<>>
        /\ LET cs == CommitValues(
                        [st |-> [managers |-> managers, cache |-> cache,
                                 applied |-> applied],
                         last_applied |-> last_applied_checkpoint,
                         in_progress |-> in_progress],
                        ValuesOf(assembled, lo, hi))
           IN  /\ managers' = cs.st.managers
               /\ cache' = cs.st.cache
               /\ applied' = cs.st.applied
               /\ last_applied_checkpoint' = cs.last_applied
               /\ in_progress' = cs.in_progress
        /\ committer_hi' = Max2(committer_hi, hi)
        /\ last_commit' = [lo |-> lo, hi |-> hi, managers |-> managers,
                           last_applied |-> last_applied_checkpoint,
                           committer_hi |-> committer_hi]
    /\ UNCHANGED <<engine_vars, law_vars, task_vars, side_vars, chain, snapshots, order_updates, order_fills, committed,
                   watermarks, ob_pc, replay_start, replay_target, replay_next,
                   live_from, assembled, crashed, crash_at, replay_end>>

\* The order-book process dies: everything it held in memory is lost; the
\* tables and the cache outlive it.
Crash ==
    /\ ob_pc # "down"
    /\ ~crashed
    /\ crashed' = TRUE
    /\ crash_at' = IF ob_pc = "live" THEN committer_hi
                   ELSE IF ob_pc = "replay" THEN replay_next - 1 ELSE 0
    /\ ob_pc' = "down"
    /\ managers' = <<>>
    /\ replay_start' = 0
    /\ replay_target' = 0
    /\ replay_next' = 0
    /\ replay_end' = 0
    /\ live_from' = 0
    /\ assembled' = [c \in 1..MaxCp |-> <<>>]
    /\ committer_hi' = 0
    /\ last_applied_checkpoint' = 0
    /\ in_progress' = {}
    /\ last_commit' = NoCommit
    /\ applied' = [p \in ManagedPools |-> <<>>]
    /\ UNCHANGED <<engine_vars, law_vars, task_vars, side_vars, cache, chain, snapshots, order_updates, order_fills,
                   committed, watermarks>>

Next ==
    \/ PersistUpdates
    \/ PersistFills
    \/ Startup
    \/ ReplayWindow
    \/ Process
    \/ Commit
    \/ Crash

Spec == Init /\ [][Next]_vars

(***************************************************************************)
(* Reading the pipeline's history                                          *)
(***************************************************************************)
\* Position in checkpoint c of the transaction with the given digest.
TxOf(c, digest) ==
    LET e == CHOOSE x \in Range(chain[c]) : Digest(c, x.d) = digest
    IN  e.tx

\* The two managers hold the same price -> size mapping on both sides.
SameBook(a, b) == SameLevels(a.asks, b.asks) /\ SameLevels(a.bids, b.bids)

RECURSIVE LiveRun(_, _, _, _)
\* The book of pool p after a live run over the checkpoints from .. upto,
\* started on manager m: one batch per checkpoint that has events of p.
LiveRun(m, p, from, upto) ==
    IF from > upto THEN m
    ELSE LET updates == DecodeUpdates(from, chain[from], p)
             fills == DecodeFills(from, chain[from], p)
         IN  LiveRun(IF updates = <<>> /\ fills = <<>> THEN m
                     ELSE handle_batch(m, updates, fills),
                     p, from + 1, upto)

\* The manager of pool p as a single continuous live run from start + 1
\* leaves it after checkpoint upto.
ContinuousLive(p, upto) ==
    LiveRun(CHOOSE m \in NewManager(snapshots[p].asks, snapshots[p].bids,
                                    snapshots[p].checkpoint) : TRUE,
            p, replay_start + 1, upto)

\* The events of pool p in the checkpoints above its initial_checkpoint, up
\* to checkpoint upto, as (checkpoint, digest, index).
EventsDue(p, upto) ==
    UNION {{<<c, Digest(c, e.d), e.index>> : e \in {x \in Range(chain[c]) : x.pool = p}} :
           c \in {k \in 1..MaxCp : k > snapshots[p].checkpoint /\ k <= upto}}

\* The events recorded in a pool's log, as (checkpoint, digest, index).
LogEvents(log) == {<<log[i].checkpoint, log[i].digest, log[i].index>> : i \in DOMAIN log}

\* The checkpoints up to which every event has been handed to the engine.
AppliedThrough == IF ob_pc = "replay" THEN replay_next - 1 ELSE committer_hi

\* The values of the last commit.
LastCommitValues == ValuesOf(assembled, last_commit.lo, last_commit.hi)

ScenarioValues ==
    [i \in 1..5 |->
        PoolBatch(102 + i, 1,
                  <<OrderUpdateOf(102 + i, Ev(1, 1, 0, "Placed", 1, 1000, 20, 20, TRUE))>>,
                  <<>>)]

ScenarioCommit ==
    CommitValues(
        [st |-> [managers |-> [p \in {1} |->
                                [asks |-> <<>>, bids |-> <<Order(1000, 50)>>,
                                 initial_checkpoint |-> 100]],
                 cache |-> [p \in ManagedPools |-> <<>>],
                 applied |-> [p \in ManagedPools |-> <<>>]],
         last_applied |-> 105,
         in_progress |-> {105}],
        ScenarioValues)

EventsAboveInitialOnly ==
    /\ eng.initial_checkpoint = eng_pre.initial_checkpoint
    /\ (eng_call.op # "none"
            /\ \A e \in CallEvents : e.checkpoint <= eng_pre.initial_checkpoint)
        => /\ SameLevels(eng.bids, eng_pre.bids)
           /\ SameLevels(eng.asks, eng_pre.asks)
           /\ eng_call.op \in {"handle_update", "handle_fill"} => eng = eng_pre
    /\ (Cardinality(CallEvents) = 1 /\ Len(eng_call.updates) + Len(eng_call.fills) = 1)
        => \A e \in CallEvents :
            e.checkpoint > eng_pre.initial_checkpoint
            => \E b \in BOOLEAN :
                /\ SizeAt(SideOf(eng, b), e.price) # SizeAt(SideOf(eng_pre, b), e.price)
                /\ SameLevelsExcept(SideOf(eng, b), SideOf(eng_pre, b), e.price)
                /\ SameLevels(SideOf(eng, ~b), SideOf(eng_pre, ~b))

\* An event at exactly initial_checkpoint has been rejected by a book that
\* an earlier event (a Placed of 50 at 1010, which no snapshot holds) had changed.
EventAtInitialRejected ==
    /\ eng_calls = 2
    /\ eng_call.op = "handle_update"
    /\ eng_call.updates[1].checkpoint = eng.initial_checkpoint
    /\ eng_call.updates[1].status = "Canceled"
    /\ eng_call.updates[1].price = 1010
    /\ eng_call.updates[1].is_bid
    /\ SizeAt(eng.bids, 1010) = 50
    /\ eng = eng_pre

(***************************************************************************)
(* C9: a Placed update above initial_checkpoint adds exactly its quantity  *)
(* to the level at its price on its own side (bids when is_bid, asks       *)
(* otherwise), appending the level when the side has none, and leaves the  *)
(* other entries of that side and the whole opposite side as they were.    *)
(***************************************************************************)
PlacedAddsQuantity ==
    (/\ eng_call.op = "handle_update"
     /\ eng_call.updates[1].status = "Placed"
     /\ eng_call.updates[1].checkpoint > eng_pre.initial_checkpoint)
    => LET u == eng_call.updates[1]
       IN  /\ SizeAt(SideOf(eng, u.is_bid), u.price)
                = SizeAt(SideOf(eng_pre, u.is_bid), u.price) + u.quantity
           /\ OnlyLevelTouched(SideOf(eng_pre, u.is_bid), SideOf(eng, u.is_bid), u.price)
           /\ SideOf(eng, ~u.is_bid) = SideOf(eng_pre, ~u.is_bid)

\* A Placed ask has created a level on an ask side that already held another
\* level, while the bid side holds a level at the very same price.
PlacedCreatesLevel ==
    /\ eng_call.op = "handle_update"
    /\ eng_call.updates[1].status = "Placed"
    /\ eng_call.updates[1].checkpoint > eng_pre.initial_checkpoint
    /\ ~eng_call.updates[1].is_bid
    /\ eng_call.updates[1].price = 1000
    /\ FindOrder(eng_pre.asks, 1000) = 0
    /\ eng_pre.asks # <<>>
    /\ FindOrder(eng_pre.bids, 1000) > 0
    /\ Len(eng.asks) = 2

(***************************************************************************)
(* C10: a Filled event above initial_checkpoint takes base_quantity off    *)
(* the level at its price on the maker side (bids when taker_is_bid is     *)
(* false, asks when it is true) and changes nothing else; with             *)
(* initial_checkpoint 100, Placed(1000, 50, bid) at 101 then               *)
(* Filled(1000, 20, taker_is_bid = false) at 102 leave bids = {1000: 30}   *)
(* and no asks.                                                            *)
(***************************************************************************)
PlaceThenFillScenario ==
    handle_fill(
        handle_update([asks |-> <<>>, bids |-> <<>>, initial_checkpoint |-> 100],
                      Update("Placed", 1000, 50, 50, TRUE, 101)),
        Fill(1000, 20, FALSE, 102))
    = [asks |-> <<>>, bids |-> <<Order(1000, 30)>>, initial_checkpoint |-> 100]

FilledDebitsMakerSide ==
    /\ PlaceThenFillScenario
    /\ (eng_call.op = "handle_fill"
            /\ eng_call.fills[1].checkpoint > eng_pre.initial_checkpoint)
        => LET f == eng_call.fills[1]
               maker_is_bid == ~f.taker_is_bid
           IN  /\ SizeAt(SideOf(eng, maker_is_bid), f.price)
                    = SizeAt(SideOf(eng_pre, maker_is_bid), f.price) - f.base_quantity
               /\ OnlyLevelTouched(SideOf(eng_pre, maker_is_bid),
                                   SideOf(eng, maker_is_bid), f.price)
               /\ SideOf(eng, f.taker_is_bid) = SideOf(eng_pre, f.taker_is_bid)

\* The scenario's last state: the fill at 102 has brought the bid of 50 that
\* the Placed at 101 put on an empty book down to 30.
PlaceThenFillReached ==
    /\ eng_calls = 2
    /\ eng_call.op = "handle_fill"
    /\ eng_call.fills[1] = Fill(1000, 20, FALSE, 102)
    /\ eng_pre = [asks |-> <<>>, bids |-> <<Order(1000, 50)>>, initial_checkpoint |-> 100]
    /\ eng = [asks |-> <<>>, bids |-> <<Order(1000, 30)>>, initial_checkpoint |-> 100]

(***************************************************************************)
(* C11: a Modified update above initial_checkpoint takes only the delta    *)
(* previous_quantity - new_quantity off the level at its price on its own  *)
(* side and changes nothing else; from bids = {500: 10}, a Modified at     *)
(* price 500 with previous quantity 10 and new quantity 7 on the bid side  *)
(* leaves bids = {500: 7}.                                                 *)
(***************************************************************************)
ModifiedScenario ==
    handle_update([asks |-> <<>>, bids |-> <<Order(500, 10)>>, initial_checkpoint |-> 100],
                  process_order_modified(OrderModified(500, 10, 7, TRUE), 101))
    = [asks |-> <<>>, bids |-> <<Order(500, 7)>>, initial_checkpoint |-> 100]

ModifiedSubtractsDelta ==
    /\ ModifiedScenario
    /\ (eng_call.op = "handle_update"
            /\ eng_call.updates[1].checkpoint > eng_pre.initial_checkpoint)
        => \A e \in ModifiedEvents :
            eng_call.updates[1] = process_order_modified(e, eng_call.updates[1].checkpoint)
            => /\ SizeAt(SideOf(eng, e.is_bid), e.price)
                    = SizeAt(SideOf(eng_pre, e.is_bid), e.price)
                        - (e.previous_quantity - e.new_quantity)
               /\ OnlyLevelTouched(SideOf(eng_pre, e.is_bid), SideOf(eng, e.is_bid), e.price)
               /\ SideOf(eng, ~e.is_bid) = SideOf(eng_pre, ~e.is_bid)

\* A Modified from 50 to 20 has brought a bid level of 50 down to 20.
ModifiedLevelReduced ==
    /\ eng_call.op = "handle_update"
    /\ eng_call.updates[1].status = "Modified"
    /\ eng_call.updates[1].checkpoint > eng_pre.initial_checkpoint
    /\ eng_call.updates[1].is_bid
    /\ eng_call.updates[1].price = 1000
    /\ SizeAt(eng_pre.bids, 1000) = 50
    /\ SizeAt(eng.bids, 1000) = 20

(***************************************************************************)
(* C12: an Expired update above initial_checkpoint takes the event's       *)
(* base_asset_quantity_canceled, which the update carries as its quantity, *)
(* off the level at its price on its own side, not original_quantity, and  *)
(* changes nothing else.                                                   *)
(***************************************************************************)
ExpiredSubtractsCanceled ==
    (eng_call.op = "handle_update"
        /\ eng_call.updates[1].checkpoint > eng_pre.initial_checkpoint)
    => \A e \in ExpiredEvents :
        eng_call.updates[1] = process_order_expired(e, eng_call.updates[1].checkpoint)
        => /\ eng_call.updates[1].quantity = e.base_asset_quantity_canceled
           /\ SizeAt(SideOf(eng, e.is_bid), e.price)
                = SizeAt(SideOf(eng_pre, e.is_bid), e.price)
                    - e.base_asset_quantity_canceled
           /\ OnlyLevelTouched(SideOf(eng_pre, e.is_bid), SideOf(eng, e.is_bid), e.price)
           /\ SideOf(eng, ~e.is_bid) = SideOf(eng_pre, ~e.is_bid)

\* An Expired of an order of 50 with 20 left has brought an ask level of 50
\* down to 30.
ExpiredLevelReduced ==
    /\ eng_call.op = "handle_update"
    /\ eng_call.updates[1].status = "Expired"
    /\ eng_call.updates[1].checkpoint > eng_pre.initial_checkpoint
    /\ ~eng_call.updates[1].is_bid
    /\ eng_call.updates[1].original_quantity = 50
    /\ SizeAt(eng_pre.asks, eng_call.updates[1].price) = 50
    /\ SizeAt(eng.asks, eng_call.updates[1].price) = 30

(***************************************************************************)
(* C13: is_valid_orderbook is true exactly when every level of both sides  *)
(* has size >= 0 and, when both sides hold a level, every bid price is     *)
(* below every ask price (the highest bid is strictly below the lowest     *)
(* ask).  A book with an empty side passes the price condition; a book     *)
(* whose best bid equals its best ask is invalid.                          *)
(***************************************************************************)
NoNegativeLevel(m) ==
    \A b \in BOOLEAN : \A i \in DOMAIN SideOf(m, b) : ~(SideOf(m, b)[i].size < 0)

BidsBelowAsks(m) ==
    \A i \in DOMAIN m.bids : \A j \in DOMAIN m.asks : m.bids[i].price < m.asks[j].price

ValidityIsSizesAndSpread ==
    /\ is_valid_orderbook(eng) <=> (NoNegativeLevel(eng) /\ BidsBelowAsks(eng))
    /\ (eng.asks = <<>> \/ eng.bids = <<>>)
        => (is_valid_orderbook(eng) <=> NoNegativeLevel(eng))
    /\ (eng.asks # <<>> /\ eng.bids # <<>>
            /\ SetMax(PricesOf(eng.bids)) = SetMin(PricesOf(eng.asks)))
        => ~is_valid_orderbook(eng)

\* A Placed bid at the price of the lowest ask has made best bid = best ask
\* in a book that was valid and holds no negative level: it is now invalid.
BestBidMeetsBestAsk ==
    /\ eng_call.op = "handle_update"
    /\ eng_call.updates[1].status = "Placed"
    /\ eng_call.updates[1].is_bid
    /\ is_valid_orderbook(eng_pre)
    /\ NoNegativeLevel(eng)
    /\ eng.asks # <<>> /\ eng.bids # <<>>
    /\ SetMax(PricesOf(eng.bids)) = SetMin(PricesOf(eng.asks))
    /\ ~is_valid_orderbook(eng)

(***************************************************************************)
(* C14: when handle_batch has returned, neither side of the book holds a   *)
(* level of size zero, whatever the book held before the call.             *)
(***************************************************************************)
NoZeroLevelAfterBatch ==
    eng_call.op = "handle_batch"
    => \A b \in BOOLEAN : \A i \in DOMAIN SideOf(eng, b) : SideOf(eng, b)[i].size # 0

\* A batch whose Canceled took the whole bid level of 20 at 1000 has left
\* no entry at that price, and the other bid level is still there.
BatchPrunedEmptiedLevel ==
    /\ eng_call.op = "handle_batch"
    /\ Len(eng_call.updates) = 1
    /\ eng_call.updates[1].status = "Canceled"
    /\ eng_call.updates[1].is_bid
    /\ eng_call.updates[1].checkpoint > eng_pre.initial_checkpoint
    /\ eng_call.fills = <<>>
    /\ FindOrder(eng_pre.bids, 1000) > 0
    /\ SizeAt(eng_pre.bids, 1000) = 20
    /\ FindOrder(eng.bids, 1000) = 0
    /\ Len(eng.bids) = Len(eng_pre.bids) - 1

(***************************************************************************)
(* C15: a Filled event, or any other subtracting event, above              *)
(* initial_checkpoint at a price where the debited side has no level       *)
(* appends a level holding the negated quantity, and the book is then      *)
(* invalid.  Processing goes on: a book with a negative level takes the    *)
(* next event like any other book, is invalid for as long as a level is    *)
(* negative, and is valid again once no level is negative (the bids        *)
(* being below the asks).  Inside handle_batch the new level comes after   *)
(* the levels that survive the pruning, and a book that was valid before   *)
(* the batch is reported as having stopped being valid.                    *)
(***************************************************************************)
\* The side an event debits and the quantity it takes off, <<>> for a Placed.
Debit(e) ==
    IF "base_quantity" \in DOMAIN e
    THEN <<[is_bid |-> ~e.taker_is_bid, qty |-> e.base_quantity]>>
    ELSE IF e.status = "Placed" THEN <<>>
    ELSE IF e.status = "Modified"
         THEN <<[is_bid |-> e.is_bid, qty |-> e.original_quantity - e.quantity]>>
    ELSE <<[is_bid |-> e.is_bid, qty |-> e.quantity]>>

\* What an event adds to the level at its price on the side it touches.
SignedQuantity(e) == IF Debit(e) = <<>> THEN e.quantity ELSE 0 - Debit(e)[1].qty

TouchedSide(e) == IF Debit(e) = <<>> THEN e.is_bid ELSE Debit(e)[1].is_bid

HasNegativeLevel(m) == ~NoNegativeLevel(m)

UnderflowTolerated ==
    /\ HasNegativeLevel(eng) => ~is_valid_orderbook(eng)
    /\ (~HasNegativeLevel(eng) /\ BidsBelowAsks(eng)) => is_valid_orderbook(eng)
    /\ (Len(eng_call.updates) + Len(eng_call.fills) = 1)
        => \A e \in CallEvents :
            e.checkpoint > eng_pre.initial_checkpoint
            => /\ SizeAt(SideOf(eng, TouchedSide(e)), e.price)
                    = SizeAt(SideOf(eng_pre, TouchedSide(e)), e.price) + SignedQuantity(e)
               /\ (Debit(e) # <<>> /\ FindOrder(SideOf(eng_pre, TouchedSide(e)), e.price) = 0)
                    => /\ SideOf(eng, TouchedSide(e))
                            = Append(IF eng_call.op = "handle_batch"
                                     THEN SelectSeq(SideOf(eng_pre, TouchedSide(e)), NonZero)
                                     ELSE SideOf(eng_pre, TouchedSide(e)),
                                     Order(e.price, 0 - Debit(e)[1].qty))
                       /\ Debit(e)[1].qty > 0
                       /\ ~is_valid_orderbook(eng)
                       /\ (eng_call.op = "handle_batch" /\ is_valid_orderbook(eng_pre))
                            => BatchTransition(eng_pre, eng_call.updates, eng_call.fills)
                                    = "STOPPED_BEING_VALID"

\* The bid level at 1000 stood at -20 (no snapshot holds a negative level:
\* a subtracting event without a level made it) and the book was invalid;
\* a Placed bid of 50 has brought the level to 30 and the book is valid.
NegativeLevelRestored ==
    /\ eng_calls = 2
    /\ SizeAt(eng_pre.bids, 1000) = 0 - 20
    /\ ~is_valid_orderbook(eng_pre)
    /\ eng_call.op = "handle_update"
    /\ eng_call.updates[1].status = "Placed"
    /\ eng_call.updates[1].is_bid
    /\ eng_call.updates[1].price = 1000
    /\ SizeAt(eng.bids, 1000) = 30
    /\ is_valid_orderbook(eng)

(***************************************************************************)
(* SpecLaws: a set of events of one pool, all above initial_checkpoint, is *)
(* fed to handle_batch in any order and in any split into batches.         *)
(***************************************************************************)
\* Largest number of events given to one run.
MaxEvents == 3

LawInitialCheckpoint == 100
LawCheckpoint == 101

\* The events a run draws from, in chain order: a bid placed and the same
\* bid canceled, a fill that consumes it, two updates whose decrement is
\* zero (a Canceled of nothing, a Modified to the same quantity) and an ask.
LawUniverse ==
    << Update("Placed", 1000, 20, 20, TRUE, LawCheckpoint),
       Update("Canceled", 1000, 20, 20, TRUE, LawCheckpoint),
       Fill(1000, 20, FALSE, LawCheckpoint),
       Update("Canceled", 1010, 0, 20, TRUE, LawCheckpoint),
       process_order_modified(OrderModified(1000, 20, 20, TRUE), LawCheckpoint),
       Update("Placed", 1010, 20, 20, FALSE, LawCheckpoint) >>

\* Books a run starts from: empty, one-sided, two-sided, and two books that
\* handle_update / handle_fill calls leave behind: a level of size zero that
\* has not been pruned and a level that has underflown.
LawBooks ==
    { [asks |-> a, bids |-> b, initial_checkpoint |-> LawInitialCheckpoint] :
        a \in {<<>>, <<Order(1010, 20)>>},
        b \in {<<>>, <<Order(1000, 50)>>, <<Order(1000, 0)>>,
                <<Order(1000, 0 - 20), Order(990, 20)>>} }

IsFillEvent(e) == "base_quantity" \in DOMAIN e
IsUpdateEvent(e) == ~IsFillEvent(e)

\* The updates (fills) of a batch given as a sequence of indices, in the
\* order of the sequence.
BatchEvents(b) == [k \in DOMAIN b |-> LawUniverse[b[k]]]
UpdatesOf(b) == SelectSeq(BatchEvents(b), IsUpdateEvent)
FillsOf(b) == SelectSeq(BatchEvents(b), IsFillEvent)

RECURSIVE InOrderBook(_, _)
\* The book after the events `idxs` went through handle_batch one by one
\* in chain order.
InOrderBook(m, idxs) ==
    IF idxs = {} THEN m
    ELSE LET i == SetMin(idxs)
         IN  InOrderBook(handle_batch(m, UpdatesOf(<<i>>), FillsOf(<<i>>)), idxs \ {i})

\* is_valid_after of handle_batch: evaluated after the last fill and before
\* remove_zero_orders.
is_valid_after(m, updates, fills) ==
    is_valid_orderbook(ApplyFills(ApplyUpdates(m, updates), fills))

LawInit ==
    /\ eng = [asks |-> <<>>, bids |-> <<>>, initial_checkpoint |-> 0]
    /\ eng_pre = eng
    /\ eng_call = NoCall
    /\ eng_calls = 0
    /\ cache = [p \in ManagedPools |-> <<>>]
    /\ chain = <<>>
    /\ snapshots = <<>>
    /\ PipelineIdle
    /\ TasksIdle
    /\ SideIdle
    /\ law_m0 \in LawBooks
    /\ law_events \in {S \in SUBSET DOMAIN LawUniverse : Cardinality(S) \in 1..MaxEvents}
    /\ law_left = law_events
    /\ law_book = law_m0
    /\ law_pre = law_m0
    /\ law_batches = <<>>

\* One handle_batch call on some of the events that are left, in some order.
LawBatch ==
    /\ \E S \in (SUBSET law_left) \ {{}} : \E b \in SeqsOf(S) :
        /\ law_book' = handle_batch(law_book, UpdatesOf(b), FillsOf(b))
        /\ law_left' = law_left \ S
        /\ law_batches' = Append(law_batches, b)
    /\ law_pre' = law_book
    /\ UNCHANGED <<engine_vars, cache, pipeline_vars, law_m0, law_events, task_vars, side_vars>>

LawNext == LawBatch

SpecLaws == LawInit /\ [][LawNext]_vars

(***************************************************************************)
(* C16: for a finite set of events of one pool, all above                  *)
(* initial_checkpoint, the book reached once all of them went through      *)
(* handle_batch holds the same size at every price of both sides as the    *)
(* book reached by applying them one by one in chain order, whatever the   *)
(* order they were applied in and however they were split into batches;    *)
(* in particular a fill applied before the Placed it consumes.             *)
(***************************************************************************)
ReorderingReachesSameBook ==
    law_left = {} => SameBook(law_book, InOrderBook(law_m0, law_events))

\* The fill went through handle_batch in an earlier batch than the Placed it
\* consumes, on a book without a level at its price; both are applied now.
FillAppliedBeforeItsPlace ==
    /\ law_left = {}
    /\ law_events = {1, 3}
    /\ law_batches = << <<3>>, <<1>> >>
    /\ FindOrder(law_m0.bids, 1000) = 0
    /\ SizeAt(law_pre.bids, 1000) = 0 - 20
    /\ FindOrder(law_book.bids, 1000) = 0

(***************************************************************************)
(* C17: a Placed(p, q) followed by a Canceled(p, q) on the same side, both *)
(* above initial_checkpoint, in one batch or in two consecutive batches,   *)
(* leave every price of both sides with the size it had before, whatever   *)
(* the book was.                                                           *)
(***************************************************************************)
PlaceThenCancelRestores ==
    (law_events = {1, 2} /\ law_batches \in {<< <<1, 2>> >>, << <<1>>, <<2>> >>})
    => SameBook(law_book, law_m0)

\* Placed and Canceled went through two consecutive batches on a book that
\* held 50 at the price: 70 in between, 50 again at the end.
PlacedThenCanceledInTwoBatches ==
    /\ law_events = {1, 2}
    /\ law_batches = << <<1>>, <<2>> >>
    /\ SizeAt(law_m0.bids, 1000) = 50
    /\ SizeAt(law_pre.bids, 1000) = 70
    /\ SizeAt(law_book.bids, 1000) = 50

(***************************************************************************)
(* C18: an update whose decrement is zero (a Modified whose previous and   *)
(* new quantity are equal, a Canceled of quantity 0) is a no-op: the book  *)
(* after the batch and the validity handle_batch records for the batch are *)
(* what they would be had the event not been in the batch, whether or not  *)
(* the side has a level at the event's price.                              *)
(***************************************************************************)
ZeroDecrement(e) ==
    /\ IsUpdateEvent(e)
    /\ \/ e.status = "Modified" /\ e.original_quantity = e.quantity
       \/ e.status = "Canceled" /\ e.quantity = 0

\* The sequence b without its k-th element.
Without(b, k) == SubSeq(b, 1, k - 1) \o SubSeq(b, k + 1, Len(b))

ZeroDecrementIsNoOp ==
    law_batches # <<>>
    => LET b == law_batches[Len(law_batches)]
       IN  \A k \in DOMAIN b :
            ZeroDecrement(LawUniverse[b[k]])
            => /\ law_book
                    = handle_batch(law_pre, UpdatesOf(Without(b, k)), FillsOf(Without(b, k)))
               /\ is_valid_after(law_pre, UpdatesOf(b), FillsOf(b))
                    = is_valid_after(law_pre, UpdatesOf(Without(b, k)),
                                     FillsOf(Without(b, k)))

(***************************************************************************)
(* SpecTasks: the tasks that take the mutex of one pool's OrderbookManager.*)
(* Each action is one hold of the mutex.                                   *)
(*   - the caller of handle_batch: one hold per (checkpoint, pool) batch,  *)
(*     checkpoints in order (replay.rs, and the committer);                *)
(*   - OrderbookOrderFillHandler::process, registered as a pipeline of its *)
(*     own in main.rs: one hold per fill, calling handle_fill.             *)
(* The write to Redis at the end of handle_batch may fail: update_orderbook*)
(* discards the error.                                                     *)
(***************************************************************************)
\* Number of checkpoints the tasks go through.
MaxTaskCp == 2

TaskPool == EnginePool

\* The checkpoint at position i of task_chain.
TaskCheckpoint(i) == LawInitialCheckpoint + i

\* What a checkpoint may hold for the pool: a bid placed and filled twice,
\* an ask placed, a single fill.
TaskContents(c) ==
    { [updates |-> <<Update("Placed", 1000, 50, 50, TRUE, c)>>,
       fills |-> <<Fill(1000, 20, FALSE, c), Fill(1000, 20, FALSE, c)>>],
      [updates |-> <<Update("Placed", 1010, 20, 20, FALSE, c)>>,
       fills |-> <<>>],
      [updates |-> <<>>,
       fills |-> <<Fill(1010, 20, TRUE, c)>>] }

\* update_orderbook with the outcome of Cache::set: the value is written,
\* or the error is dropped and the key keeps what it held.
update_orderbook_outcomes(c, m, pool) == {update_orderbook(c, m, pool), c}

RECURSIVE BookAfterBatches(_, _, _)
\* The book after handle_batch was called once for each of the checkpoints
\* 1 .. k of `ch`, in order, and for nothing else.
BookAfterBatches(m, ch, k) ==
    IF k = 0 THEN m
    ELSE LET before == BookAfterBatches(m, ch, k - 1)
         IN  handle_batch(before, ch[k].updates, ch[k].fills)

TasksInit ==
    /\ eng = [asks |-> <<>>, bids |-> <<>>, initial_checkpoint |-> 0]
    /\ eng_pre = eng
    /\ eng_call = NoCall
    /\ eng_calls = 0
    /\ cache = [p \in ManagedPools |-> <<>>]
    /\ chain = <<>>
    /\ snapshots = <<>>
    /\ PipelineIdle
    /\ LawIdle
    /\ SideIdle
    /\ task_m0 \in {m \in LawBooks : \A b \in BOOLEAN :
                        \A i \in DOMAIN SideOf(m, b) : SideOf(m, b)[i].size > 0}
    /\ task_chain \in {ch \in [1..MaxTaskCp ->
                                UNION {TaskContents(TaskCheckpoint(i)) : i \in 1..MaxTaskCp}] :
                        \A i \in 1..MaxTaskCp : ch[i] \in TaskContents(TaskCheckpoint(i))}
    /\ task_book = task_m0
    /\ task_batch_next = 1
    /\ task_fill_cp = 1
    /\ task_fill_k = 0
    /\ task_last = "none"

\* manager.lock(); locked.handle_batch(updates, fills)
TaskBatch ==
    /\ task_batch_next <= MaxTaskCp
    /\ task_book' = handle_batch(task_book, task_chain[task_batch_next].updates,
                                 task_chain[task_batch_next].fills)
    /\ cache' \in update_orderbook_outcomes(cache, task_book', TaskPool)
    /\ task_batch_next' = task_batch_next + 1
    /\ task_last' = "batch"
    /\ UNCHANGED <<engine_vars, pipeline_vars, law_vars, side_vars, task_m0, task_chain,
                   task_fill_cp, task_fill_k>>

\* OrderbookOrderFillHandler::process: ob_m.lock(); locked.handle_fill(fill)
\* for the next fill of the checkpoint it is in.
TaskFill ==
    /\ task_fill_cp <= MaxTaskCp
    /\ task_fill_k < Len(task_chain[task_fill_cp].fills)
    /\ task_book' = handle_fill(task_book, task_chain[task_fill_cp].fills[task_fill_k + 1])
    /\ task_fill_k' = task_fill_k + 1
    /\ task_last' = "fill"
    /\ UNCHANGED <<engine_vars, cache, pipeline_vars, law_vars, side_vars, task_m0, task_chain,
                   task_batch_next, task_fill_cp>>

\* OrderbookOrderFillHandler::process returns Ok(vec![]) once the fills of
\* the checkpoint are applied, and is called with the next checkpoint.
TaskFillReturn ==
    /\ task_fill_cp <= MaxTaskCp
    /\ task_fill_k = Len(task_chain[task_fill_cp].fills)
    /\ task_fill_cp' = task_fill_cp + 1
    /\ task_fill_k' = 0
    /\ UNCHANGED <<engine_vars, cache, pipeline_vars, law_vars, side_vars, task_m0, task_chain,
                   task_book, task_batch_next, task_last>>

TasksNext == TaskBatch \/ TaskFill \/ TaskFillReturn

SpecTasks == TasksInit /\ [][TasksNext]_vars

(***************************************************************************)
(* C19: after every applied batch of a pool, the value the cache holds     *)
(* under the pool's key is the readable view of the pool's book as the     *)
(* batch left it (all its events applied, zero-size levels pruned): the    *)
(* cache never lags the book by a whole batch.                             *)
(***************************************************************************)
CacheFollowsEveryBatch ==
    task_last = "batch"
    => cache[TaskPool] = <<get_readable_orderbook(task_book, TaskPool)>>

(***************************************************************************)
(* C20: under any interleaving of the tasks that touch a pool's book,      *)
(* every value written to the cache for the pool is the book at a batch    *)
(* boundary: the book with the batches of the checkpoints up to some       *)
(* checkpoint applied in full and no event of a later batch.               *)
(***************************************************************************)
CacheHoldsBatchBoundary ==
    cache[TaskPool] # <<>>
    => \E k \in 0..MaxTaskCp :
        cache[TaskPool][1]
            = get_readable_orderbook(BookAfterBatches(task_m0, task_chain, k), TaskPool)

(***************************************************************************)
(* Specifications beside the order book share this frame: the order-book   *)
(* variables stay idle in them.                                            *)
(***************************************************************************)
orderbook_vars == <<engine_vars, cache, pipeline_vars, law_vars, task_vars>>

OrderBookIdle ==
    /\ eng = [asks |-> <<>>, bids |-> <<>>, initial_checkpoint |-> 0]
    /\ eng_pre = eng
    /\ eng_call = NoCall
    /\ eng_calls = 0
    /\ cache = [p \in ManagedPools |-> <<>>]
    /\ chain = <<>>
    /\ snapshots = <<>>
    /\ PipelineIdle
    /\ LawIdle
    /\ TasksIdle

(***************************************************************************)
(* SpecTrades: Cache::push (utils/src/cache.rs) on one latest_trades list, *)
(* from connections that each run RPUSH and then LTRIM.  Either command    *)
(* may fail; `?` then returns the error to the caller.                     *)
(***************************************************************************)
\* latest_trades_size: stands for LATEST_TRADE_SIZE = 100, scaled down so
\* that the list overflows within MaxPushes pushes.
LatestTradeSize == 3

\* Number of records RPUSH appends in one run.
MaxPushes == 5

Connections == {1, 2}
TradeRecords == {1, 2}

\* Redis LTRIM key start stop: negative indices count from the end, start
\* is clamped to the head and stop to the tail, an empty range empties the
\* list.
LTrim(list, start, stop) ==
    LET len == Len(list)
        first == IF start < 0 THEN Max2(len + start, 0) ELSE start
        last == IF stop < 0 THEN len + stop ELSE Min2(stop, len - 1)
    IN  IF first > last \/ first >= len THEN <<>>
        ELSE SubSeq(list, first + 1, last + 1)

push_trim_oldest(list) == LTrim(list, 0, LatestTradeSize - 1)

\* ltrim(key, -(latest_trades_size as isize), -1)
push_trim(list) == LTrim(list, 0 - LatestTradeSize, 0 - 1)

\* What no step of SpecTrades changes.
trades_frame ==
    <<orderbook_vars, decode_vars, commit_vars, watermark_vars, pool_vars,
      shutdown_vars,
      factor_vars,
      startup_vars,
      store_vars,
      historic_vars,
      socket_vars>>

TradesInit ==
    /\ OrderBookIdle
    /\ DecodeIdle
    /\ CommitIdle
    /\ WatermarkIdle
    /\ PoolsIdle
    /\ ShutdownIdle
    /\ FactorsIdle
    /\ StartupIdle
    /\ StoreIdle
    /\ HistoricIdle
    /\ SocketIdle
    /\ trades_list = <<>>
    /\ trades_pushed = <<>>
    /\ trades_pc = [c \in Connections |-> "idle"]
    /\ trades_last = "none"
    /\ trades_read = <<>>

\* push: serialization or RPUSH fails, nothing is appended.
PushRejected ==
    /\ \E c \in Connections : trades_pc[c] = "idle"
    /\ Len(trades_pushed) < MaxPushes
    /\ trades_last' = "error"
    /\ UNCHANGED <<trades_frame, trades_list, trades_pushed, trades_pc, trades_read>>

\* push: RPUSH appends the serialized record.
PushRpush ==
    /\ Len(trades_pushed) < MaxPushes
    /\ \E c \in Connections, r \in TradeRecords :
        /\ trades_pc[c] = "idle"
        /\ trades_list' = Append(trades_list, r)
        /\ trades_pushed' = Append(trades_pushed, r)
        /\ trades_pc' = [trades_pc EXCEPT ![c] = "trim"]
    /\ trades_last' = "rpush"
    /\ UNCHANGED <<trades_frame, trades_read>>

\* push: LTRIM succeeds and push returns Ok(()).
PushLtrim ==
    /\ \E c \in Connections :
        /\ trades_pc[c] = "trim"
        /\ trades_pc' = [trades_pc EXCEPT ![c] = "idle"]
    /\ trades_list' = push_trim(trades_list)
    /\ trades_last' = "completed"
    /\ UNCHANGED <<trades_frame, trades_pushed, trades_read>>

\* push: LTRIM fails, push returns the error and the list stays untrimmed.
PushLtrimFailed ==
    /\ \E c \in Connections :
        /\ trades_pc[c] = "trim"
        /\ trades_pc' = [trades_pc EXCEPT ![c] = "idle"]
    /\ trades_last' = "error"
    /\ UNCHANGED <<trades_frame, trades_list, trades_pushed, trades_read>>

\* get_array of a reader (handle_latest_trades_socket's fetch_latest):
\* LRANGE key 0 -1, the whole list as it is at that moment (None, kept
\* here as the empty list, when it is empty).
GetArray ==
    /\ trades_read' = <<trades_list>>
    /\ trades_read' # trades_read
    /\ UNCHANGED <<trades_frame, trades_list, trades_pushed, trades_pc, trades_last>>

TradesNext ==
    PushRejected \/ PushRpush \/ PushLtrim \/ PushLtrimFailed \/ GetArray

SpecTrades == TradesInit /\ [][TradesNext]_vars

\* The last k elements of a sequence.
LastOf(seq, k) == SubSeq(seq, Len(seq) - k + 1, Len(seq))

(***************************************************************************)
(* C21: when a push on a latest_trades list has completed, the list holds  *)
(* at most latest_trades_size entries, and they are exactly the            *)
(* min(n, latest_trades_size) records pushed last, oldest first and newest *)
(* last, n being the number of records pushed so far.                      *)
(***************************************************************************)
LatestTradesBounded ==
    trades_last = "completed"
    => /\ Len(trades_list) <= LatestTradeSize
       /\ trades_list
            = LastOf(trades_pushed, Min2(Len(trades_pushed), LatestTradeSize))

\* Two records more than the list may hold have been pushed, no push is
\* under way, and the push that completed last has left the newest
\* latest_trades_size records: the first record pushed is gone.
OldestTradesDropped ==
    /\ trades_last = "completed"
    /\ Len(trades_pushed) = LatestTradeSize + 2
    /\ Len(trades_list) = LatestTradeSize
    /\ trades_list[1] # trades_pushed[1]
    /\ \A c \in Connections : trades_pc[c] = "idle"

(***************************************************************************)
(* SpecCommit: Handler::commit of the persister (balances_handler.rs,      *)
(* flash_loan_handler.rs) on one table.  A batch is the `values` slice the *)
(* framework hands to commit; the framework may hand the same batch again. *)
(***************************************************************************)
\* Number of commits in one run.
MaxCommits == 3

\* Rows of the table: its primary key (event_digest, timestamp) and one
\* payload column.  The first two rows share their key.
CommitRows ==
    {[event_digest |-> "d0", timestamp |-> 10, amount |-> 1],
     [event_digest |-> "d0", timestamp |-> 10, amount |-> 2],
     [event_digest |-> "d1", timestamp |-> 10, amount |-> 1],
     [event_digest |-> "d0", timestamp |-> 11, amount |-> 1]}

CommitBatches == {<<r>> : r \in CommitRows} \cup (CommitRows \X CommitRows)

\* primary_key(event_digest, timestamp)
PrimaryKey(row) == <<row.event_digest, row.timestamp>>

HasKey(table, key) == \E i \in 1..Len(table) : PrimaryKey(table[i]) = key

RECURSIVE insert_all(_, _)
insert_all(table, values) ==
    IF values = <<>> THEN table
    ELSE insert_all(Append(table, Head(values)), Tail(values))

\* insert_into(table).values(values).on_conflict_do_nothing(): a row whose
\* primary key is already in the table, or was inserted earlier by this
\* statement, is left out.
RECURSIVE insert_on_conflict_do_nothing(_, _)
insert_on_conflict_do_nothing(table, values) ==
    IF values = <<>> THEN table
    ELSE insert_on_conflict_do_nothing(
            IF HasKey(table, PrimaryKey(Head(values))) THEN table
            ELSE Append(table, Head(values)),
            Tail(values))

\* What no step of SpecCommit changes.
commit_frame ==
    <<orderbook_vars, trade_vars, decode_vars, watermark_vars, pool_vars,
      shutdown_vars,
      factor_vars,
      startup_vars,
      store_vars,
      historic_vars,
      socket_vars>>

CommitInit ==
    /\ OrderBookIdle
    /\ TradesIdle
    /\ DecodeIdle
    /\ WatermarkIdle
    /\ PoolsIdle
    /\ ShutdownIdle
    /\ FactorsIdle
    /\ StartupIdle
    /\ StoreIdle
    /\ HistoricIdle
    /\ SocketIdle
    /\ tbl_rows = <<>>
    /\ tbl_before = <<>>
    /\ tbl_log = <<>>

\* commit(values, conn)
HandlerCommit ==
    /\ Len(tbl_log) < MaxCommits
    /\ \E values \in CommitBatches :
        /\ tbl_rows' = insert_on_conflict_do_nothing(tbl_rows, values)
        /\ tbl_log' = Append(tbl_log, values)
    /\ tbl_before' = tbl_rows
    /\ UNCHANGED commit_frame

CommitNext == HandlerCommit

SpecCommit == CommitInit /\ [][CommitNext]_vars

CommittedBefore(values) ==
    \E i \in 1..(Len(tbl_log) - 1) : tbl_log[i] = values

(***************************************************************************)
(* C22: after every commit no two rows of the table have the same key and  *)
(* the rows the table held before the commit are all still there,          *)
(* unmodified; and when the batch had been committed before, the table is  *)
(* the table before the commit.                                            *)
(***************************************************************************)
CommitIsIdempotent ==
    tbl_log # <<>>
    => /\ \A i, j \in 1..Len(tbl_rows) :
            PrimaryKey(tbl_rows[i]) = PrimaryKey(tbl_rows[j]) => i = j
       /\ Len(tbl_before) <= Len(tbl_rows)
       /\ SubSeq(tbl_rows, 1, Len(tbl_before)) = tbl_before
       /\ CommittedBefore(tbl_log[Len(tbl_log)]) => tbl_rows = tbl_before

\* A batch of two rows has been committed a second time, after a commit of
\* a row with the key of one of its rows and another payload.
BatchCommittedTwice ==
    /\ Len(tbl_log) = 3
    /\ Len(tbl_log[3]) = 2
    /\ tbl_log[3] = tbl_log[1]
    /\ Len(tbl_log[2]) = 1
    /\ \E i \in 1..2 :
        /\ PrimaryKey(tbl_log[2][1]) = PrimaryKey(tbl_log[1][i])
        /\ tbl_log[2][1] # tbl_log[1][i]
    /\ Len(tbl_rows) = 2
    /\ tbl_rows = tbl_before

(***************************************************************************)
(* SpecWatermark: the committer watermark of the pipelines.  The framework *)
(* commits the batches of a pipeline concurrently, computes the watermark  *)
(* of the pipeline after a commit (PipelineHi) and hands it to             *)
(* set_committer_watermark of the store (orderbook/src/runtime_store.rs).  *)
(* The calls of a pipeline may reach the store in any order.               *)
(***************************************************************************)
WatermarkPipelines == {"order_update", "order_fill"}

\* RuntimeWatermark, its three checkpoint fields (the epoch, transaction
\* and timestamp fields are carried along by the code and never compared).
RuntimeWatermark(checkpoint_hi_inclusive, reader_lo, pruner_hi) ==
    [checkpoint_hi_inclusive |-> checkpoint_hi_inclusive,
     reader_lo |-> reader_lo, pruner_hi |-> pruner_hi]

\* map.entry(pipeline_task).or_default()
EntryOrDefault(map, pipeline_task) ==
    IF pipeline_task \in DOMAIN map THEN map[pipeline_task]
    ELSE RuntimeWatermark(0, 0, 0)

WithEntry(map, pipeline_task, entry) ==
    [q \in DOMAIN map \cup {pipeline_task} |->
        IF q = pipeline_task THEN entry ELSE map[q]]

\* set_committer_watermark(pipeline_task, watermark): the map after the call
\* and the value returned.
set_committer_watermark(map, pipeline_task, checkpoint_hi_inclusive) ==
    LET entry == EntryOrDefault(map, pipeline_task)
    IN  IF checkpoint_hi_inclusive < entry.checkpoint_hi_inclusive
        THEN [map |-> WithEntry(map, pipeline_task, entry), ok |-> FALSE]
        ELSE [map |-> WithEntry(map, pipeline_task,
                        [entry EXCEPT !.checkpoint_hi_inclusive
                                        = checkpoint_hi_inclusive]),
              ok |-> TRUE]

\* init_watermark(pipeline_task, default_next_checkpoint): the map after
\* the call and the Option returned, {} for None and {v} for Some(v).
init_watermark(map, pipeline_task, default_next_checkpoint) ==
    IF pipeline_task \in DOMAIN map
    THEN [map |-> map, ok |-> {map[pipeline_task].checkpoint_hi_inclusive}]
    ELSE IF default_next_checkpoint = 0
    THEN [map |-> map, ok |-> {}]
    ELSE [map |-> WithEntry(map, pipeline_task,
                    RuntimeWatermark(default_next_checkpoint - 1,
                                     default_next_checkpoint,
                                     default_next_checkpoint)),
          ok |-> {default_next_checkpoint - 1}]

\* A mutation of set_reader_watermark: the comparison is left out.
set_reader_watermark_unguarded(map, pipeline, reader_lo) ==
    [map |-> WithEntry(map, pipeline,
                [EntryOrDefault(map, pipeline) EXCEPT !.reader_lo = reader_lo]),
     ok |-> TRUE]

\* set_reader_watermark(pipeline, reader_lo)
set_reader_watermark(map, pipeline, reader_lo) ==
    LET entry == EntryOrDefault(map, pipeline)
    IN  IF reader_lo <= entry.reader_lo
        THEN [map |-> WithEntry(map, pipeline, entry), ok |-> FALSE]
        ELSE [map |-> WithEntry(map, pipeline, [entry EXCEPT !.reader_lo = reader_lo]),
              ok |-> TRUE]

\* set_pruner_watermark(pipeline, pruner_hi)
set_pruner_watermark(map, pipeline, pruner_hi) ==
    LET entry == EntryOrDefault(map, pipeline)
    IN  IF pruner_hi <= entry.pruner_hi
        THEN [map |-> WithEntry(map, pipeline, entry), ok |-> FALSE]
        ELSE [map |-> WithEntry(map, pipeline, [entry EXCEPT !.pruner_hi = pruner_hi]),
              ok |-> TRUE]

\* What no step of SpecWatermark changes.
watermark_frame ==
    <<orderbook_vars, trade_vars, decode_vars, commit_vars, pool_vars,
      shutdown_vars,
      factor_vars,
      startup_vars,
      store_vars,
      historic_vars,
      socket_vars>>

WatermarkInit ==
    /\ OrderBookIdle
    /\ TradesIdle
    /\ DecodeIdle
    /\ CommitIdle
    /\ PoolsIdle
    /\ ShutdownIdle
    /\ FactorsIdle
    /\ StartupIdle
    /\ StoreIdle
    /\ HistoricIdle
    /\ SocketIdle
    /\ wm_done = [p \in WatermarkPipelines |-> {}]
    /\ wm_calls = {}
    /\ wm_store = <<>>
    /\ wm_last = <<>>

\* init_watermark(pipeline_task, default_next_checkpoint) of a pipeline that
\* starts at checkpoint 1 and has no entry yet.
InitWatermark ==
    /\ \E p \in WatermarkPipelines :
        /\ p \notin DOMAIN wm_store
        /\ wm_store' = init_watermark(wm_store, p, 1).map
    /\ UNCHANGED <<watermark_frame, wm_done, wm_calls, wm_last>>

\* A batch of a pipeline commits, whatever the checkpoints committed before
\* it; the framework then computes the watermark and issues the call.
BatchCommits ==
    /\ \E p \in WatermarkPipelines, c \in 1..MaxCp :
        /\ c \notin wm_done[p]
        /\ wm_done' = [wm_done EXCEPT ![p] = @ \cup {c}]
        /\ wm_calls' =
            IF PipelineHi(wm_done'[p]) = 0 THEN wm_calls
            ELSE wm_calls \cup {<<p, PipelineHi(wm_done'[p])>>}
    /\ UNCHANGED <<watermark_frame, wm_store, wm_last>>

\* A call of set_committer_watermark runs.
SetCommitterWatermark ==
    /\ \E call \in wm_calls :
        LET r == set_committer_watermark(wm_store, call[1], call[2])
        IN  /\ wm_store' = r.map
            /\ wm_last' = <<call[1], r.ok>>
            /\ wm_calls' = wm_calls \ {call}
    /\ UNCHANGED <<watermark_frame, wm_done>>

WatermarkNext == InitWatermark \/ BatchCommits \/ SetCommitterWatermark

SpecWatermark == WatermarkInit /\ [][WatermarkNext]_vars

MaxTxs == 2
MaxTxEvents == 2

EventTypes == {"BalanceEvent", "OrderPlaced", "OrderFilled"}

Handlers == {"balances", "order_fill", "order_update"}

\* tx.transaction.digest().to_string(): characters, the same number in
\* every digest of the model.
TxDigest(t) == <<5, t>>

\* The decimal digits of a usize, as Display prints it.
RECURSIVE Decimal(_)
Decimal(n) == IF n < 10 THEN <<n>> ELSE Append(Decimal(n \div 10), n % 10)

\* format!("{digest}{index}")
format_event_digest(digest, index) == digest \o Decimal(index)

\* The events a transaction may carry: contents name the event, so that
\* no two events of the checkpoint have the same contents.
TxEvents(t) ==
    UNION {{[k \in 1..n |-> [type_ |-> f[k][1], decodes |-> f[k][2],
                             contents |-> <<t, k>>]] :
                f \in [1..n -> EventTypes \X BOOLEAN]} :
            n \in 1..MaxTxEvents}

CheckpointTransactions ==
    {txs \in [1..MaxTxs -> UNION {[digest : {TxDigest(t)},
                                   is_deepbook_tx : BOOLEAN,
                                   events : TxEvents(t)] : t \in 1..MaxTxs}] :
        \A t \in 1..MaxTxs : txs[t].digest = TxDigest(t)}

DecodedRow(tx, index, ev) ==
    [event_digest |-> format_event_digest(tx.digest, index),
     digest |-> tx.digest, contents |-> ev.contents]

\* events.data.iter().filter(|ev| ev.type_ == event_type).enumerate()
\*     .try_fold(result, |mut result, (index, ev)| { bcs::from_bytes(..)?; .. })
\* from the k-th filtered event on: the first event that fails to decode
\* ends the fold with the error.
RECURSIVE try_fold_filtered(_, _, _, _)
try_fold_filtered(result, tx, filtered, k) ==
    IF k > Len(filtered) THEN [ok |-> TRUE, values |-> result]
    ELSE IF ~filtered[k].decodes THEN [ok |-> FALSE, values |-> <<>>]
    ELSE try_fold_filtered(Append(result, DecodedRow(tx, k - 1, filtered[k])),
                           tx, filtered, k + 1)

Filtered(tx, event_type) ==
    SelectSeq(tx.events, LAMBDA ev : ev.type_ = event_type)

\* BalancesHandler::process: transactions.iter().try_fold(vec![], ..) from
\* transaction t on.
RECURSIVE balances_process(_, _, _)
balances_process(result, txs, t) ==
    IF t > Len(txs) THEN [ok |-> TRUE, values |-> result]
    ELSE IF ~txs[t].is_deepbook_tx THEN balances_process(result, txs, t + 1)
    ELSE LET r == try_fold_filtered(result, txs[t],
                                    Filtered(txs[t], "BalanceEvent"), 1)
         IN  IF r.ok THEN balances_process(r.values, txs, t + 1) ELSE r

\* OrderbookOrderFillHandler::process: the fills handed to handle_fill, from
\* transaction t on.  The fold of a transaction starts from an empty vector
\* and its fills are applied only when the fold returns Ok.
RECURSIVE order_fill_process(_, _, _)
order_fill_process(applied_fills, txs, t) ==
    IF t > Len(txs) THEN [ok |-> TRUE, values |-> applied_fills]
    ELSE IF ~txs[t].is_deepbook_tx
    THEN order_fill_process(applied_fills, txs, t + 1)
    ELSE LET r == try_fold_filtered(<<>>, txs[t],
                                    Filtered(txs[t], "OrderFilled"), 1)
         IN  order_fill_process(
                IF r.ok THEN applied_fills \o r.values ELSE applied_fills,
                txs, t + 1)

\* OrderbookOrderUpdateHandler::process, the loop over the events of one
\* transaction from the k-th on: for (index, ev) in events.data.iter()
\* .enumerate() { if ev.type_ == .. { if let Ok(event) = bcs::from_bytes(..)
RECURSIVE order_update_events(_, _, _)
order_update_events(batch, tx, k) ==
    IF k > Len(tx.events) THEN batch
    ELSE order_update_events(
            IF tx.events[k].type_ \in {"OrderPlaced", "OrderFilled"}
               /\ tx.events[k].decodes
            THEN Append(batch, DecodedRow(tx, k - 1, tx.events[k]))
            ELSE batch,
            tx, k + 1)

RECURSIVE order_update_process(_, _, _)
order_update_process(batch, txs, t) ==
    IF t > Len(txs) THEN [ok |-> TRUE, values |-> batch]
    ELSE order_update_process(
            IF txs[t].is_deepbook_tx THEN order_update_events(batch, txs[t], 1)
            ELSE batch,
            txs, t + 1)

handler_process(handler, txs) ==
    CASE handler = "balances" -> balances_process(<<>>, txs, 1)
      [] handler = "order_fill" -> order_fill_process(<<>>, txs, 1)
      [] handler = "order_update" -> order_update_process(<<>>, txs, 1)

\* The event types a handler decodes.
HandlerTypes(handler) ==
    CASE handler = "balances" -> {"BalanceEvent"}
      [] handler = "order_fill" -> {"OrderFilled"}
      [] handler = "order_update" -> {"OrderPlaced", "OrderFilled"}

\* What no step of SpecDecode changes.
decode_frame ==
    <<orderbook_vars, trade_vars, commit_vars, watermark_vars, pool_vars,
      shutdown_vars,
      factor_vars,
      startup_vars,
      store_vars,
      historic_vars,
      socket_vars>>

DecodeInit ==
    /\ OrderBookIdle
    /\ TradesIdle
    /\ CommitIdle
    /\ WatermarkIdle
    /\ PoolsIdle
    /\ ShutdownIdle
    /\ FactorsIdle
    /\ StartupIdle
    /\ StoreIdle
    /\ HistoricIdle
    /\ SocketIdle
    /\ dec_txs \in CheckpointTransactions
    /\ dec_out = [h \in Handlers |-> <<>>]

ProcessBalances ==
    /\ dec_out["balances"] = <<>>
    /\ dec_out' = [dec_out EXCEPT !["balances"] = <<handler_process("balances", dec_txs)>>]
    /\ UNCHANGED <<decode_frame, dec_txs>>

ProcessOrderFill ==
    /\ dec_out["order_fill"] = <<>>
    /\ dec_out' =
        [dec_out EXCEPT !["order_fill"] = <<handler_process("order_fill", dec_txs)>>]
    /\ UNCHANGED <<decode_frame, dec_txs>>

ProcessOrderUpdate ==
    /\ dec_out["order_update"] = <<>>
    /\ dec_out' =
        [dec_out EXCEPT !["order_update"] = <<handler_process("order_update", dec_txs)>>]
    /\ UNCHANGED <<decode_frame, dec_txs>>

DecodeNext == ProcessBalances \/ ProcessOrderFill \/ ProcessOrderUpdate

SpecDecode == DecodeInit /\ [][DecodeNext]_vars

\* The contents of the events of the given types that decode, in the
\* transactions process looks at, in stream order from transaction t on.
RECURSIVE Decodable(_, _, _)
Decodable(txs, types, t) ==
    IF t > Len(txs) THEN <<>>
    ELSE (IF txs[t].is_deepbook_tx
          THEN SelectSeq(txs[t].events,
                         LAMBDA ev : ev.type_ \in types /\ ev.decodes)
          ELSE <<>>)
         \o Decodable(txs, types, t + 1)

ContentsOf(rows) == [i \in 1..Len(rows) |-> rows[i].contents]

ContentsOfEvents(events) == [i \in 1..Len(events) |-> events[i].contents]

(***************************************************************************)
(* C24: in every handler, process of a checkpoint succeeds whatever events *)
(* fail to decode, and it yields exactly the events of its types that      *)
(* decode, those of a transaction with an undecodable event included.      *)
(***************************************************************************)
DecodeFailureSkipsOneEvent ==
    \A h \in Handlers :
        dec_out # <<>> /\ dec_out[h] # <<>>
        => /\ dec_out[h][1].ok
           /\ ContentsOf(dec_out[h][1].values)
                = ContentsOfEvents(Decodable(dec_txs, HandlerTypes(h), 1))

\* The rows the handlers that have run have yielded.
YieldedRows ==
    UNION {{dec_out[h][1].values[i] : i \in 1..Len(dec_out[h][1].values)} :
            h \in {g \in DOMAIN dec_out : dec_out[g] # <<>>}}

(***************************************************************************)
(* C25: the fingerprint of every row a handler yields is the digest of the *)
(* event's transaction followed by the position of the event in the        *)
(* transaction's event list, counted from 0; over all handlers, two rows   *)
(* have the same fingerprint exactly when they are rows of the same event. *)
(***************************************************************************)
FingerprintIsDigestAndPosition ==
    /\ \A r \in YieldedRows :
        r.event_digest
            = format_event_digest(TxDigest(r.contents[1]), r.contents[2] - 1)
    /\ \A r, q \in YieldedRows :
        (r.event_digest = q.event_digest) <=> (r.contents = q.contents)

(***************************************************************************)
(* SpecPools: the batches of several pools handed to the managers of the   *)
(* OrderbookManagerMap, as the loops of apply_range (replay.rs) and of     *)
(* OrderbookOrderUpdateHandler::process do: look the pool id up, lock its  *)
(* manager, apply the batch.  The batches of different pools are taken in  *)
(* any order, the batches of one pool in their own order.                  *)
(***************************************************************************)
\* Batches addressed to one pool id.
MaxPoolBatches == 2

BatchPoolIds == ManagedPools \cup {UnmanagedPool}

\* Batches, as sequences of indices into LawUniverse.
PoolBatchChoices == {<<1>>, <<6, 2>>}

PoolBooks ==
    { [asks |-> <<>>, bids |-> b, initial_checkpoint |-> LawInitialCheckpoint] :
        b \in {<<>>, <<Order(1000, 50)>>} }

\* A mutation of apply_pool_batch: one manager shared by all the pools.
apply_pool_batch_shared(map, pool_id, updates, fills) ==
    IF pool_id \in DOMAIN map
    THEN [q \in DOMAIN map |-> handle_batch(map[q], updates, fills)]
    ELSE map

\* if let Some(manager) = orderbook_managers.get(&pool_id) {
\*     if let Ok(mut locked) = manager.lock() { locked.handle_batch(..) } }
apply_pool_batch(map, pool_id, updates, fills) ==
    IF pool_id \in DOMAIN map
    THEN [map EXCEPT ![pool_id] = handle_batch(map[pool_id], updates, fills)]
    ELSE map

\* What no step of SpecPools changes.
pools_frame ==
    <<orderbook_vars, trade_vars, decode_vars, commit_vars, watermark_vars,
      shutdown_vars,
      factor_vars,
      startup_vars,
      store_vars,
      historic_vars,
      socket_vars>>

PoolsInit ==
    /\ OrderBookIdle
    /\ TradesIdle
    /\ DecodeIdle
    /\ CommitIdle
    /\ WatermarkIdle
    /\ ShutdownIdle
    /\ FactorsIdle
    /\ StartupIdle
    /\ StoreIdle
    /\ HistoricIdle
    /\ SocketIdle
    /\ pl_m0 \in [ManagedPools -> PoolBooks]
    /\ pl_batches \in [BatchPoolIds -> [1..MaxPoolBatches -> PoolBatchChoices]]
    /\ pl_next = [p \in BatchPoolIds |-> 0]
    /\ pl_managers = pl_m0
    /\ pl_last = <<>>

\* The next batch of a pool id is handled.
HandlePoolBatch ==
    /\ \E pool_id \in BatchPoolIds :
        /\ pl_next[pool_id] < MaxPoolBatches
        /\ LET b == pl_batches[pool_id][pl_next[pool_id] + 1]
           IN  pl_managers' =
                apply_pool_batch(pl_managers, pool_id, UpdatesOf(b), FillsOf(b))
        /\ pl_next' = [pl_next EXCEPT ![pool_id] = @ + 1]
        /\ pl_last' = <<pool_id, pl_managers>>
    /\ UNCHANGED <<pools_frame, pl_m0, pl_batches>>

PoolsNext == HandlePoolBatch

SpecPools == PoolsInit /\ [][PoolsNext]_vars

\* The book of a pool after the first k of its batches, applied to it alone.
RECURSIVE PoolAlone(_, _, _)
PoolAlone(m, batches, k) ==
    IF k = 0 THEN m
    ELSE LET b == batches[k]
         IN  handle_batch(PoolAlone(m, batches, k - 1), UpdatesOf(b), FillsOf(b))

(***************************************************************************)
(* C26: a batch handled for one pool id leaves the manager (book and       *)
(* initial_checkpoint) of every other pool as it was, and the book of each *)
(* pool is the one its own batches give when applied to it alone, however  *)
(* the batches of the pools were interleaved.                              *)
(***************************************************************************)
PoolsAreIndependent ==
    /\ pl_last # <<>>
        => \A q \in ManagedPools \ {pl_last[1]} : pl_managers[q] = pl_last[2][q]
    /\ pl_managers # <<>>
        => \A p \in ManagedPools :
            pl_managers[p] = PoolAlone(pl_m0[p], pl_batches[p], pl_next[p])

\* Both pools have had their batches, which changed both books, in different
\* ways; the last batch was one of pool 1, handled after the last of pool 2.
PoolsInterleaved ==
    /\ pl_last # <<>>
    /\ pl_last[1] = 1
    /\ \A p \in ManagedPools : pl_next[p] = MaxPoolBatches
    /\ \A p \in ManagedPools : pl_managers[p] # pl_m0[p]
    /\ pl_managers[1] # pl_managers[2]
    /\ pl_last[2][1] # pl_managers[1]
    /\ pl_batches[1] # pl_batches[2]

(***************************************************************************)
(* SpecShutdown: the live committer and the cancellation signal.  A commit *)
(* is the stream of values of CommitValues taken one value at a step, each *)
(* step one handle_batch call under the manager's lock (orderbook.rs), and *)
(* a last step that brings last_applied_checkpoint to in_progress.  The    *)
(* committer looks at the signal between commits.                          *)
(***************************************************************************)
\* Values in the stream of one run.
MaxValues == 3

\* The checkpoints of the values of a stream: ascending, at most two values
\* (of different pools) in one checkpoint.
StreamCheckpoints ==
    {cps \in [1..MaxValues -> (LawInitialCheckpoint + 1)..(LawInitialCheckpoint + MaxValues)] :
        /\ cps[1] = LawInitialCheckpoint + 1
        /\ \A i \in 1..(MaxValues - 1) : cps[i + 1] \in {cps[i], cps[i] + 1}
        /\ \A i \in 1..(MaxValues - 2) : cps[i + 2] # cps[i]}

ValueStreams ==
    {[i \in 1..MaxValues |->
        PoolBatch(cps[i], pools[i],
                  <<Update("Placed", IF asks[i] THEN 1010 ELSE 1000, 20, 20,
                           ~asks[i], cps[i])>>,
                  <<>>)] :
        cps \in StreamCheckpoints,
        pools \in [1..MaxValues -> ManagedPools],
        asks \in [1..MaxValues -> BOOLEAN]}

\* A mutation of commit_value: last_applied_checkpoint is brought to the
\* checkpoint of a value as soon as the value has been applied.
commit_value_eager(cs, v) ==
    IF ~KeepValue(v, cs.last_applied) THEN cs
    ELSE [managers |-> apply_pool_batch(cs.managers, v.pool_id, v.updates, v.fills),
          last_applied |-> v.checkpoint,
          in_progress |-> {v.checkpoint}]

\* The committer on one value.
commit_value(cs, v) ==
    IF ~KeepValue(v, cs.last_applied) THEN cs
    ELSE [managers |-> apply_pool_batch(cs.managers, v.pool_id, v.updates, v.fills),
          last_applied |-> IF cs.in_progress # {v.checkpoint} /\ cs.in_progress # {}
                           THEN SetMax(cs.in_progress) ELSE cs.last_applied,
          in_progress |-> {v.checkpoint}]

\* The committer after the last value of a commit.
commit_finalize(cs) ==
    [cs EXCEPT !.last_applied =
        IF cs.in_progress = {} THEN @ ELSE SetMax(cs.in_progress)]

\* A mutation of may_exit: the signal is looked at before every step.
may_exit_mid_commit(pc, cancelled) == cancelled /\ pc # "exited"

\* The committer leaves when the signal is raised and no commit is under
\* way.
may_exit(pc, cancelled) == cancelled /\ pc = "idle"

\* What no step of SpecShutdown changes.
shutdown_frame ==
    <<orderbook_vars, trade_vars, decode_vars, commit_vars, watermark_vars,
      pool_vars,
      factor_vars,
      startup_vars,
      store_vars,
      historic_vars,
      socket_vars>>

ShutdownInit ==
    /\ OrderBookIdle
    /\ TradesIdle
    /\ DecodeIdle
    /\ CommitIdle
    /\ WatermarkIdle
    /\ PoolsIdle
    /\ FactorsIdle
    /\ StartupIdle
    /\ StoreIdle
    /\ HistoricIdle
    /\ SocketIdle
    /\ sd_stream \in ValueStreams
    /\ sd_taken = 0
    /\ sd_values = <<>>
    /\ sd_cs = [managers |-> [p \in ManagedPools |->
                                [asks |-> <<>>, bids |-> <<>>,
                                 initial_checkpoint |-> LawInitialCheckpoint]],
                last_applied |-> LawInitialCheckpoint,
                in_progress |-> {}]
    /\ sd_pc = "idle"
    /\ sd_cancel = FALSE
    /\ sd_start = [cs |-> sd_cs, values |-> <<>>]
    /\ sd_cancel_at = <<>>

\* The signal is raised, whatever the committer is doing.
Cancel ==
    /\ ~sd_cancel
    /\ sd_cancel' = TRUE
    /\ sd_cancel_at' = <<sd_pc, Len(sd_values)>>
    /\ UNCHANGED <<shutdown_frame, sd_stream, sd_taken, sd_values, sd_cs, sd_pc,
                   sd_start>>

\* The framework hands the committer the next values of the stream.
CommitStart ==
    /\ sd_pc = "idle"
    /\ ~may_exit(sd_pc, sd_cancel)
    /\ \E n \in 1..(MaxValues - sd_taken) :
        /\ sd_values' = SubSeq(sd_stream, sd_taken + 1, sd_taken + n)
        /\ sd_taken' = sd_taken + n
    /\ sd_pc' = "commit"
    /\ sd_start' = [cs |-> sd_cs, values |-> sd_values']
    /\ UNCHANGED <<shutdown_frame, sd_stream, sd_cs, sd_cancel, sd_cancel_at>>

\* The committer takes the next value of the commit.
CommitValue ==
    /\ sd_pc = "commit"
    /\ ~may_exit(sd_pc, sd_cancel)
    /\ sd_values # <<>>
    /\ sd_cs' = commit_value(sd_cs, Head(sd_values))
    /\ sd_values' = Tail(sd_values)
    /\ UNCHANGED <<shutdown_frame, sd_stream, sd_taken, sd_pc, sd_cancel,
                   sd_start, sd_cancel_at>>

\* The committer ends the commit.
CommitFinalize ==
    /\ sd_pc = "commit"
    /\ ~may_exit(sd_pc, sd_cancel)
    /\ sd_values = <<>>
    /\ sd_cs' = commit_finalize(sd_cs)
    /\ sd_pc' = "idle"
    /\ UNCHANGED <<shutdown_frame, sd_stream, sd_taken, sd_values, sd_cancel,
                   sd_start, sd_cancel_at>>

\* The committer exits.
CommitterExit ==
    /\ may_exit(sd_pc, sd_cancel)
    /\ sd_pc' = "exited"
    /\ UNCHANGED <<shutdown_frame, sd_stream, sd_taken, sd_values, sd_cs,
                   sd_cancel, sd_start, sd_cancel_at>>

ShutdownNext ==
    Cancel \/ CommitStart \/ CommitValue \/ CommitFinalize \/ CommitterExit

\* The runtime keeps scheduling the committer: a step it can take is taken.
SpecShutdown ==
    /\ ShutdownInit
    /\ [][ShutdownNext]_vars
    /\ WF_vars(CommitValue)
    /\ WF_vars(CommitFinalize)
    /\ WF_vars(CommitterExit)

\* The committer state after a whole commit.
RECURSIVE WholeCommit(_, _)
WholeCommit(cs, values) ==
    IF values = <<>> THEN commit_finalize(cs)
    ELSE WholeCommit(commit_value(cs, Head(values)), Tail(values))

MaxDecimals == 11

\* 10^19 < 2^64 < 10^20: the largest power of ten a u64 holds.
MaxU64Exponent == 19

\* A u64 that an overflow has wrapped: not the power of ten asked for.
Wrapped == 0 - 1

\* a - b on u32.  The value of a wrapped result is kept as a - b, which
\* stands for 2^32 + a - b.
u32_sub(build, a, b) ==
    IF a >= b THEN [panicked |-> FALSE, overflowed |-> FALSE, value |-> a - b]
    ELSE IF build = "debug"
    THEN [panicked |-> TRUE, overflowed |-> TRUE, value |-> 0]
    ELSE [panicked |-> FALSE, overflowed |-> TRUE, value |-> a - b]

\* x + b on u32, x the result of u32_sub: the sum of a wrapped x and b
\* passes 2^32 when it is not negative.
u32_add(build, x, b) ==
    IF x.panicked THEN x
    ELSE IF x.value < 0 /\ x.value + b >= 0
    THEN IF build = "debug"
         THEN [panicked |-> TRUE, overflowed |-> TRUE, value |-> 0]
         ELSE [panicked |-> FALSE, overflowed |-> TRUE, value |-> x.value + b]
    ELSE [x EXCEPT !.value = @ + b]

\* (10u64).pow(exp), exp as u32_add leaves it.
u64_pow10(build, exp) ==
    IF exp.panicked THEN exp
    ELSE IF exp.value \in 0..MaxU64Exponent THEN exp
    ELSE IF build = "debug"
    THEN [panicked |-> TRUE, overflowed |-> TRUE, value |-> 0]
    ELSE [panicked |-> FALSE, overflowed |-> TRUE, value |-> Wrapped]

no_overflow(v) == [panicked |-> FALSE, overflowed |-> FALSE, value |-> v]

\* OrderbookManager::new, the factors:
\*   let price_factor = (10u64).pow(9 - base_decimals + quote_decimals);
\*   let size_factor = (10u64).pow(base_decimals);
new_factors(build, base_decimals, quote_decimals) ==
    LET pf == u64_pow10(build,
                        u32_add(build, u32_sub(build, 9, base_decimals),
                                quote_decimals))
        sf == u64_pow10(build, no_overflow(base_decimals))
    IN  IF pf.panicked \/ sf.panicked
        THEN [panicked |-> TRUE, overflowed |-> TRUE,
              price_factor |-> Wrapped, size_factor |-> Wrapped]
        ELSE [panicked |-> FALSE,
              overflowed |-> pf.overflowed \/ sf.overflowed,
              price_factor |-> pf.value, size_factor |-> sf.value]

Quantity(mantissa, exponent) == [m |-> mantissa, e |-> exponent]

\* A quantity with no trailing zero in its mantissa.
RECURSIVE Normalised(_)
Normalised(x) ==
    IF x.m # 0 /\ x.m % 10 = 0 THEN Normalised(Quantity(x.m \div 10, x.e + 1))
    ELSE x

\* (order.price as f64) / (self.price_factor as f64), for a factor that is
\* a power of ten.
divide(raw, factor) ==
    IF factor = Wrapped THEN Wrapped
    ELSE Normalised(Quantity(raw.m, raw.e - factor))

\* The raw level (1_500_000_000_000, 2_500_000).
ExampleLevel == [price |-> Quantity(15, 11), size |-> Quantity(25, 5)]

readable_level(order, factors) ==
    [price |-> divide(order.price, factors.price_factor),
     size |-> divide(order.size, factors.size_factor)]

\* What no step of SpecFactors changes.
factors_frame ==
    <<orderbook_vars, trade_vars, decode_vars, commit_vars, watermark_vars,
      pool_vars, shutdown_vars,
      startup_vars,
      store_vars,
      historic_vars,
      socket_vars>>

FactorsInit ==
    /\ OrderBookIdle
    /\ TradesIdle
    /\ DecodeIdle
    /\ CommitIdle
    /\ WatermarkIdle
    /\ PoolsIdle
    /\ ShutdownIdle
    /\ StartupIdle
    /\ StoreIdle
    /\ HistoricIdle
    /\ SocketIdle
    /\ fx_build \in {"debug", "release"}
    /\ fx_base \in 0..MaxDecimals
    /\ fx_quote \in 0..MaxDecimals
    /\ fx_out = <<>>
    /\ fx_published = <<>>

\* OrderbookManager::new
FactorsNew ==
    /\ fx_out = <<>>
    /\ fx_out' = <<new_factors(fx_build, fx_base, fx_quote)>>
    /\ UNCHANGED <<factors_frame, fx_build, fx_base, fx_quote, fx_published>>

\* get_readable_orderbook of a manager that holds the example level.
FactorsPublish ==
    /\ fx_out # <<>>
    /\ ~fx_out[1].panicked
    /\ fx_published = <<>>
    /\ fx_published' = <<readable_level(ExampleLevel, fx_out[1])>>
    /\ UNCHANGED <<factors_frame, fx_build, fx_base, fx_quote, fx_out>>

FactorsNext == FactorsNew \/ FactorsPublish

SpecFactors == FactorsInit /\ [][FactorsNext]_vars

(***************************************************************************)
(* C28: for decimals d_b, d_q with 0 <= 9 - d_b + d_q whose factors fit in *)
(* 64 bits, OrderbookManager::new returns price_factor = 10^(9-d_b+d_q)    *)
(* and size_factor = 10^d_b and no operation on the way overflows; with    *)
(* d_b = 6 and d_q = 9 the raw level (1_500_000_000_000, 2_500_000) is     *)
(* published as (1.5, 2.5).                                                *)
(***************************************************************************)
FactorsAreExact ==
    /\ (/\ fx_out # <<>>
        /\ 9 - fx_base + fx_quote \in 0..MaxU64Exponent
        /\ fx_base <= MaxU64Exponent)
        => fx_out[1] = [panicked |-> FALSE, overflowed |-> FALSE,
                        price_factor |-> 9 - fx_base + fx_quote,
                        size_factor |-> fx_base]
    /\ (fx_published # <<>> /\ fx_base = 6 /\ fx_quote = 9)
        => fx_published[1] = [price |-> Quantity(15, 0 - 1),
                              size |-> Quantity(25, 0 - 1)]

(***************************************************************************)
(* SpecStartup: main (orderbook/src/main.rs) builds the manager map, one   *)
(* OrderbookManager::new per row of the pools table, and then runs the     *)
(* indexer, whose handlers apply batches and publish books.  new reads the *)
(* latest snapshot of the pool and panics when there is none.              *)
(***************************************************************************)
\* Batches the handlers apply in one run.
MaxStartupBatches == 2

SnapshotRows ==
    {[checkpoint |-> LawInitialCheckpoint, asks |-> <<>>, bids |-> <<>>],
     [checkpoint |-> LawInitialCheckpoint, asks |-> [q \in {1010} |-> 20],
      bids |-> [q \in {1000} |-> 50]]}

\* A mutation of new_manager: a pool without snapshot starts from an empty
\* book.
new_manager_or_empty(found) ==
    IF found = <<>>
    THEN [panicked |-> FALSE,
          managers |-> {[asks |-> <<>>, bids |-> <<>>, initial_checkpoint |-> 0]}]
    ELSE [panicked |-> FALSE,
          managers |-> NewManager(found[1].asks, found[1].bids, found[1].checkpoint)]

\* OrderbookManager::new on what get_latest_snapshot found:
\*   .expect("failed getting snapshot").expect("got None instead of snapshot")
new_manager(found) ==
    IF found = <<>> THEN [panicked |-> TRUE, managers |-> {}]
    ELSE [panicked |-> FALSE,
          managers |-> NewManager(found[1].asks, found[1].bids, found[1].checkpoint)]

\* What no step of SpecStartup changes.
startup_frame ==
    <<orderbook_vars, trade_vars, decode_vars, commit_vars, watermark_vars,
      pool_vars, shutdown_vars, factor_vars,
      store_vars,
      historic_vars,
      socket_vars>>

StartupInit ==
    /\ OrderBookIdle
    /\ TradesIdle
    /\ DecodeIdle
    /\ CommitIdle
    /\ WatermarkIdle
    /\ PoolsIdle
    /\ ShutdownIdle
    /\ FactorsIdle
    /\ StoreIdle
    /\ HistoricIdle
    /\ SocketIdle
    /\ su_snapshots \in [ManagedPools -> {<<>>} \cup {<<row>> : row \in SnapshotRows}]
    /\ su_pc = "loading"
    /\ su_loaded = 0
    /\ su_map = <<>>
    /\ su_cache = [p \in ManagedPools |-> <<>>]
    /\ su_applied = 0

\* for pool in pools { .. }: one turn of the loop.  sync either succeeds and
\* the manager enters the map, or fails and the pool is passed over.
LoadPool ==
    /\ su_pc = "loading"
    /\ su_loaded < Cardinality(ManagedPools)
    /\ LET pool == su_loaded + 1
           made == new_manager(su_snapshots[pool])
       IN  IF made.panicked
           THEN /\ su_pc' = "panicked"
                /\ UNCHANGED <<su_loaded, su_map>>
           ELSE /\ su_loaded' = su_loaded + 1
                /\ su_pc' = "loading"
                /\ \E m \in made.managers, synced \in BOOLEAN :
                    su_map' = IF synced
                              THEN [q \in DOMAIN su_map \cup {pool} |->
                                        IF q = pool THEN m ELSE su_map[q]]
                              ELSE su_map
    /\ UNCHANGED <<startup_frame, su_snapshots, su_cache, su_applied>>

\* The loop is over: the indexer is built and run.
RunIndexer ==
    /\ su_pc = "loading"
    /\ su_loaded = Cardinality(ManagedPools)
    /\ su_pc' = "running"
    /\ UNCHANGED <<startup_frame, su_snapshots, su_loaded, su_map, su_cache,
                   su_applied>>

\* A handler hands a batch of a pool to its manager, which publishes its
\* book.
IndexerBatch ==
    /\ su_pc = "running"
    /\ su_applied < MaxStartupBatches
    /\ \E pool_id \in ManagedPools, b \in PoolBatchChoices :
        /\ su_map' = apply_pool_batch(su_map, pool_id, UpdatesOf(b), FillsOf(b))
        /\ su_cache' = IF pool_id \in DOMAIN su_map
                       THEN update_orderbook(su_cache, su_map'[pool_id], pool_id)
                       ELSE su_cache
    /\ su_applied' = su_applied + 1
    /\ UNCHANGED <<startup_frame, su_snapshots, su_pc, su_loaded>>

StartupNext == LoadPool \/ RunIndexer \/ IndexerBatch

SpecStartup == StartupInit /\ [][StartupNext]_vars

TransitionBetween(before, after) ==
    IF is_valid_orderbook(before) /\ ~is_valid_orderbook(after)
    THEN "STOPPED_BEING_VALID"
    ELSE IF ~is_valid_orderbook(before) /\ is_valid_orderbook(after)
    THEN "BECAME_VALID"
    ELSE "none"

(***************************************************************************)
(* C30: the validity handle_batch records after a batch is the validity of *)
(* the book the batch leaves, zero-size levels pruned, and the transition  *)
(* it prints is the one between the book before the batch and that book:   *)
(* a level of size zero does not count in max(bid) < min(ask).             *)
(***************************************************************************)
ValidityIsOfPrunedBook ==
    law_batches # <<>>
    => LET b == law_batches[Len(law_batches)]
       IN  /\ law_book = handle_batch(law_pre, UpdatesOf(b), FillsOf(b))
           /\ is_valid_after(law_pre, UpdatesOf(b), FillsOf(b))
                = is_valid_orderbook(law_book)
           /\ BatchTransition(law_pre, UpdatesOf(b), FillsOf(b))
                = TransitionBetween(law_pre, law_book)

\* The records of the four batches of the example, each batch applied to
\* the book the one before it left, from an empty book.
ExampleRecords ==
    LET c == LawCheckpoint
        b0 == [asks |-> <<>>, bids |-> <<>>,
               initial_checkpoint |-> LawInitialCheckpoint]
        u1 == <<Update("Placed", 1000, 10, 10, TRUE, c)>>
        u2 == <<Update("Placed", 1010, 5, 5, FALSE, c)>>
        u3 == <<Update("Placed", 1020, 5, 5, TRUE, c)>>
        u4 == <<Update("Canceled", 1020, 5, 5, TRUE, c)>>
        b1 == handle_batch(b0, u1, <<>>)
        b2 == handle_batch(b1, u2, <<>>)
        b3 == handle_batch(b2, u3, <<>>)
    IN  <<BatchTransition(b0, u1, <<>>), BatchTransition(b1, u2, <<>>),
          BatchTransition(b2, u3, <<>>), BatchTransition(b3, u4, <<>>)>>

(***************************************************************************)
(* C31: a batch prints the became-invalid record exactly when the book was *)
(* valid before the batch and the book the batch leaves is invalid, the    *)
(* became-valid record exactly when the book was invalid before and the    *)
(* book it leaves is valid, and nothing otherwise; the four batches of the *)
(* example print nothing, nothing, became-invalid and became-valid.        *)
(***************************************************************************)
TransitionRecordedExactly ==
    /\ law_batches # <<>>
        => LET b == law_batches[Len(law_batches)]
               record == BatchTransition(law_pre, UpdatesOf(b), FillsOf(b))
           IN  /\ record = "STOPPED_BEING_VALID"
                    <=> is_valid_orderbook(law_pre) /\ ~is_valid_orderbook(law_book)
               /\ record = "BECAME_VALID"
                    <=> ~is_valid_orderbook(law_pre) /\ is_valid_orderbook(law_book)
    /\ ExampleRecords = <<"none", "none", "STOPPED_BEING_VALID", "BECAME_VALID">>

RECURSIVE ApplyAbove(_, _, _)
\* The managers after every value above the checkpoint floor has been
\* applied, in order.
ApplyAbove(ms, values, floor) ==
    IF values = <<>> THEN ms
    ELSE LET v == Head(values)
         IN  ApplyAbove(IF v.checkpoint > floor
                        THEN apply_pool_batch(ms, v.pool_id, v.updates, v.fills)
                        ELSE ms,
                        Tail(values), floor)

LastCommitApplied ==
    SelectSeq(LastCommitValues, LAMBDA v : v.checkpoint > last_commit.last_applied)

ReplayLog(p) == SelectSeq(applied[p], LAMBDA e : e.via = "replay")

\* The persisted rows of pool p in the checkpoints lo .. hi, as
\* (checkpoint, digest, index).
PersistedIn(p, lo, hi) ==
    {<<r.checkpoint, r.digest, event_index(r.digest, r.event_digest)>> :
        r \in RowsInRange(order_updates, {p}, lo, hi)
              \cup RowsInRange(order_fills, {p}, lo, hi)}

ReaderSeesAtMostSize ==
    /\ \A i \in DOMAIN trades_read :
        Len(trades_read[i]) <= LatestTradeSize
    /\ (trades_last = "error" /\ \A c \in Connections : trades_pc[c] = "idle")
        => Len(trades_list) <= LatestTradeSize

\* No two entries of the side have the same price.
OnePerPrice(side) ==
    \A i, j \in DOMAIN side : side[i].price = side[j].price => i = j

(***************************************************************************)
(* C36: in every state of a book loaded from a snapshot with one entry per *)
(* price, each side holds at most one entry for any price.                 *)
(***************************************************************************)
OneEntryPerPrice == OnePerPrice(eng.asks) /\ OnePerPrice(eng.bids)

\* A Placed order has been added to the bid the book already held at its
\* price: the side has as many entries as before and the entry has grown.
PlacedOnExistingLevel ==
    /\ eng_call.op = "handle_update"
    /\ LET u == eng_call.updates[1]
           i == FindOrder(eng_pre.bids, u.price)
       IN  /\ u.status = "Placed" /\ u.is_bid
           /\ i > 0
           /\ Len(eng.bids) = Len(eng_pre.bids)
           /\ eng.bids[i].size = eng_pre.bids[i].size + u.quantity
           /\ u.quantity > 0

(***************************************************************************)
(* SpecStore: the Connection of the in-memory RuntimeStore                 *)
(* (orderbook/src/runtime_store.rs).  Every method takes the mutex of the  *)
(* map for its whole body, so a call is one step; the calls come in any    *)
(* order, for any pipeline, with any value.                                *)
(***************************************************************************)
\* Calls in one run, and the checkpoints the calls carry: 0 .. MaxWatermark.
MaxStoreCalls == 3
MaxWatermark == 2

StoreMethods ==
    {"init_watermark", "set_committer_watermark", "set_reader_watermark",
     "set_pruner_watermark"}

\* The method called with the pipeline and the value given.
StoreCall(map, method, pipeline, value) ==
    IF method = "init_watermark" THEN init_watermark(map, pipeline, value)
    ELSE IF method = "set_committer_watermark"
    THEN set_committer_watermark(map, pipeline, value)
    ELSE IF method = "set_reader_watermark"
    THEN set_reader_watermark(map, pipeline, value)
    ELSE set_pruner_watermark(map, pipeline, value)

\* What no step of SpecStore changes.
store_frame ==
    <<orderbook_vars, trade_vars, decode_vars, commit_vars, watermark_vars,
      pool_vars, shutdown_vars, factor_vars, startup_vars,
      historic_vars,
      socket_vars>>

StoreInit ==
    /\ OrderBookIdle
    /\ TradesIdle
    /\ DecodeIdle
    /\ CommitIdle
    /\ WatermarkIdle
    /\ PoolsIdle
    /\ ShutdownIdle
    /\ FactorsIdle
    /\ StartupIdle
    /\ HistoricIdle
    /\ SocketIdle
    /\ rs_store = <<>>
    /\ rs_last = <<>>
    /\ rs_calls = 0

\* A task of a pipeline calls init_watermark.
CallInitWatermark ==
    /\ rs_calls < MaxStoreCalls
    /\ \E p \in WatermarkPipelines, v \in 0..MaxWatermark :
        LET r == StoreCall(rs_store, "init_watermark", p, v)
        IN  /\ rs_store' = r.map
            /\ rs_last' = <<[method |-> "init_watermark", pipeline |-> p, value |-> v,
                             result |-> r.ok, before |-> rs_store]>>
    /\ rs_calls' = rs_calls + 1
    /\ UNCHANGED store_frame

\* A committer calls set_committer_watermark.
CallSetCommitterWatermark ==
    /\ rs_calls < MaxStoreCalls
    /\ \E p \in WatermarkPipelines, v \in 0..MaxWatermark :
        LET r == StoreCall(rs_store, "set_committer_watermark", p, v)
        IN  /\ rs_store' = r.map
            /\ rs_last' = <<[method |-> "set_committer_watermark", pipeline |-> p, value |-> v,
                             result |-> r.ok, before |-> rs_store]>>
    /\ rs_calls' = rs_calls + 1
    /\ UNCHANGED store_frame

\* The reader-watermark task calls set_reader_watermark.
CallSetReaderWatermark ==
    /\ rs_calls < MaxStoreCalls
    /\ \E p \in WatermarkPipelines, v \in 0..MaxWatermark :
        LET r == StoreCall(rs_store, "set_reader_watermark", p, v)
        IN  /\ rs_store' = r.map
            /\ rs_last' = <<[method |-> "set_reader_watermark", pipeline |-> p, value |-> v,
                             result |-> r.ok, before |-> rs_store]>>
    /\ rs_calls' = rs_calls + 1
    /\ UNCHANGED store_frame

\* A pruner calls set_pruner_watermark.
CallSetPrunerWatermark ==
    /\ rs_calls < MaxStoreCalls
    /\ \E p \in WatermarkPipelines, v \in 0..MaxWatermark :
        LET r == StoreCall(rs_store, "set_pruner_watermark", p, v)
        IN  /\ rs_store' = r.map
            /\ rs_last' = <<[method |-> "set_pruner_watermark", pipeline |-> p, value |-> v,
                             result |-> r.ok, before |-> rs_store]>>
    /\ rs_calls' = rs_calls + 1
    /\ UNCHANGED store_frame

StoreNext ==
    \/ CallInitWatermark
    \/ CallSetCommitterWatermark
    \/ CallSetReaderWatermark
    \/ CallSetPrunerWatermark

SpecStore == StoreInit /\ [][StoreNext]_vars

\* The field of the last call's method.
FieldOf(method, entry) ==
    IF method = "set_reader_watermark" THEN entry.reader_lo
    ELSE IF method = "set_pruner_watermark" THEN entry.pruner_hi
    ELSE entry.checkpoint_hi_inclusive

(***************************************************************************)
(* C37: no call lowers checkpoint_hi_inclusive, reader_lo or pruner_hi of  *)
(* a pipeline that has a watermark, or removes the watermark; a setter     *)
(* called with a value below the stored one returns false, init_watermark  *)
(* on a pipeline that has a watermark returns its checkpoint_hi_inclusive, *)
(* and both leave the stored watermarks as they were.                      *)
(***************************************************************************)
WatermarksNeverDecrease ==
    \A k \in DOMAIN rs_last :
        LET call == rs_last[k]
            before == call.before
            stored == call.pipeline \in DOMAIN before
        IN  /\ \A p \in DOMAIN before :
                /\ p \in DOMAIN rs_store
                /\ rs_store[p].checkpoint_hi_inclusive >= before[p].checkpoint_hi_inclusive
                /\ rs_store[p].reader_lo >= before[p].reader_lo
                /\ rs_store[p].pruner_hi >= before[p].pruner_hi
            /\ (stored /\ call.method = "init_watermark")
                => /\ call.result = {before[call.pipeline].checkpoint_hi_inclusive}
                   /\ rs_store = before
            /\ (/\ stored
                /\ call.method # "init_watermark"
                /\ call.value < FieldOf(call.method, before[call.pipeline]))
                => /\ call.result = FALSE
                   /\ rs_store = before

\* set_reader_watermark has been called with a value below the reader_lo
\* that init_watermark and an earlier call had left, and returned false.
LowerReaderWatermarkRefused ==
    \E k \in DOMAIN rs_last :
        /\ rs_last[k].method = "set_reader_watermark"
        /\ rs_last[k].pipeline \in DOMAIN rs_last[k].before
        /\ rs_last[k].value < rs_last[k].before[rs_last[k].pipeline].reader_lo
        /\ rs_last[k].before[rs_last[k].pipeline].reader_lo = MaxWatermark
        /\ rs_last[k].result = FALSE
        /\ rs_calls = MaxStoreCalls

(***************************************************************************)
(* SpecHistoric: the offline snapshot builder, get_historic_orderbook      *)
(* (orderbook/src/historic_orderbook.rs) as update_snapshots runs it for   *)
(* one pool (orderbook/src/bin/update_snapshots.rs): the latest stored     *)
(* snapshot, then every order_updates and order_fills row of the pool      *)
(* above its checkpoint up to end_checkpoint, on two price -> quantity     *)
(* maps.  Timestamps are left out.                                         *)
(***************************************************************************)
\* Rows in each table, runs of store_snapshot, and checkpoints of the rows.
MaxHistoricUpdates == 2
MaxHistoricFills == 1
MaxSnapshotRuns == 2
MaxHistoricCp == 2

\* OrderUpdateSummary rows.
HistoricUpdateRows ==
    {Update("Placed", p, 20, 20, b, c) :
        p \in Prices, b \in BOOLEAN, c \in 1..MaxHistoricCp}
    \cup {Update("Canceled", p, 20, 50, b, c) :
        p \in Prices, b \in BOOLEAN, c \in 1..MaxHistoricCp}
    \cup {Update("Expired", p, 20, 50, b, c) :
        p \in Prices, b \in BOOLEAN, c \in 1..MaxHistoricCp}
    \cup {Update("Modified", p, 20, 50, b, c) :
        p \in Prices, b \in BOOLEAN, c \in 1..MaxHistoricCp}

\* OrderFillSummary rows.
HistoricFillRows ==
    {Fill(p, 20, t, c) : p \in Prices, t \in BOOLEAN, c \in 1..MaxHistoricCp}

SeqsUpTo(S, n) == UNION {[1..k -> S] : k \in 0..n}

\* The snapshot a pool may have before the first run.
SeedSnapshot ==
    [checkpoint |-> 0, asks |-> [q \in {1010} |-> 20], bids |-> [q \in {1000} |-> 50]]

status_to_operation(status) == IF status = "Placed" THEN "Add" ELSE "Subtract"

OrderStep(price, quantity, op, checkpoint, is_bid) ==
    [price |-> price, quantity |-> quantity, op |-> op,
     checkpoint |-> checkpoint, is_bid |-> is_bid]

\* A mutation of get_txs: rows of start_checkpoint itself are loaded too.
get_txs_inclusive(update_rows, fill_rows, start_checkpoint, end_checkpoint) ==
    LET in_range(r) == r.checkpoint >= start_checkpoint /\ r.checkpoint <= end_checkpoint
        u == SelectSeq(update_rows, in_range)
        f == SelectSeq(fill_rows, in_range)
    IN  [i \in DOMAIN u |->
            OrderStep(u[i].price,
                      IF u[i].status = "Modified"
                      THEN u[i].original_quantity - u[i].quantity ELSE u[i].quantity,
                      status_to_operation(u[i].status), u[i].checkpoint, u[i].is_bid)]
        \o [i \in DOMAIN f |->
            OrderStep(f[i].price, f[i].base_quantity, "Subtract", f[i].checkpoint,
                      ~f[i].taker_is_bid)]

\* get_txs: the update rows with start_checkpoint < checkpoint <=
\* end_checkpoint as steps, then the fill rows of the same range.
get_txs(update_rows, fill_rows, start_checkpoint, end_checkpoint) ==
    LET in_range(r) == r.checkpoint > start_checkpoint /\ r.checkpoint <= end_checkpoint
        u == SelectSeq(update_rows, in_range)
        f == SelectSeq(fill_rows, in_range)
    IN  [i \in DOMAIN u |->
            OrderStep(u[i].price,
                      IF u[i].status = "Modified"
                      THEN u[i].original_quantity - u[i].quantity ELSE u[i].quantity,
                      status_to_operation(u[i].status), u[i].checkpoint, u[i].is_bid)]
        \o [i \in DOMAIN f |->
            OrderStep(f[i].price, f[i].base_quantity, "Subtract", f[i].checkpoint,
                      ~f[i].taker_is_bid)]

\* A mutation of has_overlap: a bid at the price of an ask is let through.
has_overlap_strict(asks, bids) ==
    /\ DOMAIN asks # {} /\ DOMAIN bids # {}
    /\ SetMax(DOMAIN bids) > SetMin(DOMAIN asks)

has_overlap(asks, bids) ==
    /\ DOMAIN asks # {} /\ DOMAIN bids # {}
    /\ SetMax(DOMAIN bids) >= SetMin(DOMAIN asks)

\* get_latest_snapshot: order by checkpoint desc, first(); {} for None.
get_latest_snapshot(table) ==
    {table[i] : i \in {j \in DOMAIN table :
                        \A k \in DOMAIN table : table[k].checkpoint <= table[j].checkpoint}}

values_from_orderbook_option(initial_orderbook) ==
    IF initial_orderbook = {}
    THEN [checkpoint |-> 0 - 1, asks |-> <<>>, bids |-> <<>>]
    ELSE CHOOSE ob \in initial_orderbook : TRUE

\* side.entry(price).and_modify(..).or_insert_with(..)
EntryStep(side, order) ==
    LET signed == IF order.op = "Add" THEN order.quantity ELSE 0 - order.quantity
    IN  [q \in DOMAIN side \cup {order.price} |->
            IF q = order.price
            THEN (IF q \in DOMAIN side THEN side[q] ELSE 0) + signed
            ELSE side[q]]

RECURSIVE ApplySteps(_, _)
\* for order in orders { .. } on book = [asks, bids].
ApplySteps(book, orders) ==
    IF orders = <<>> THEN book
    ELSE LET order == Head(orders)
         IN  ApplySteps(IF order.is_bid
                        THEN [book EXCEPT !.bids = EntryStep(@, order)]
                        ELSE [book EXCEPT !.asks = EntryStep(@, order)],
                        Tail(orders))

\* side.retain(|_, &mut qty| qty != 0)
RetainNonZero(side) == [q \in {x \in DOMAIN side : side[x] # 0} |-> side[q]]

\* get_historic_orderbook on the snapshot table and the row tables.
get_historic_orderbook(table, update_rows, fill_rows, end_checkpoint) ==
    LET last == values_from_orderbook_option(get_latest_snapshot(table))
        start_checkpoint == last.checkpoint
        orders == get_txs(update_rows, fill_rows, start_checkpoint, end_checkpoint)
        book == ApplySteps([asks |-> last.asks, bids |-> last.bids], orders)
        asks == RetainNonZero(book.asks)
        bids == RetainNonZero(book.bids)
    IN  IF start_checkpoint >= end_checkpoint
        THEN [ok |-> FALSE, error |-> "StartGreaterThanEnd"]
        ELSE IF \E q \in DOMAIN bids : bids[q] < 0
        THEN [ok |-> FALSE, error |-> "NegativeOrder"]
        ELSE IF \E q \in DOMAIN asks : asks[q] < 0
        THEN [ok |-> FALSE, error |-> "NegativeOrder"]
        ELSE IF has_overlap(asks, bids)
        THEN [ok |-> FALSE, error |-> "Overlap"]
        ELSE [ok |-> TRUE,
              snapshot |-> [checkpoint |-> end_checkpoint, asks |-> asks, bids |-> bids]]

\* What no step of SpecHistoric changes.
historic_frame ==
    <<orderbook_vars, trade_vars, decode_vars, commit_vars, watermark_vars,
      pool_vars, shutdown_vars, factor_vars, startup_vars, store_vars,
      socket_vars>>

HistoricInit ==
    /\ OrderBookIdle
    /\ TradesIdle
    /\ DecodeIdle
    /\ CommitIdle
    /\ WatermarkIdle
    /\ PoolsIdle
    /\ ShutdownIdle
    /\ FactorsIdle
    /\ StartupIdle
    /\ StoreIdle
    /\ SocketIdle
    /\ ho_updates \in SeqsUpTo(HistoricUpdateRows, MaxHistoricUpdates)
    /\ ho_fills \in SeqsUpTo(HistoricFillRows, MaxHistoricFills)
    /\ ho_snapshots \in {<<>>, <<SeedSnapshot>>}
    /\ ho_last = <<>>
    /\ ho_runs = 0

\* store_snapshot(pool_id, end_checkpoint): the snapshot is inserted when
\* get_historic_orderbook returns one; an error is printed and nothing is
\* stored.
StoreSnapshot ==
    /\ ho_runs < MaxSnapshotRuns
    /\ \E end_checkpoint \in 0..MaxHistoricCp :
        LET r == get_historic_orderbook(ho_snapshots, ho_updates, ho_fills,
                                        end_checkpoint)
        IN  /\ ho_snapshots' = IF r.ok THEN Append(ho_snapshots, r.snapshot)
                               ELSE ho_snapshots
            /\ ho_last' = <<[end_checkpoint |-> end_checkpoint, result |-> r,
                             before |-> ho_snapshots]>>
    /\ ho_runs' = ho_runs + 1
    /\ UNCHANGED <<historic_frame, ho_updates, ho_fills>>

HistoricNext == StoreSnapshot

SpecHistoric == HistoricInit /\ [][HistoricNext]_vars

RECURSIVE SignedSum(_, _, _, _, _)
\* What the rows above checkpoint `start` up to `end` add to the level
\* (price, is_bid): placements count up; cancellations, expirations, the
\* decrease of a modification and fills (on the maker's side) count down.
SignedSum(rows, price, is_bid, start, end) ==
    IF rows = <<>> THEN 0
    ELSE LET r == Head(rows)
             is_fill == "taker_is_bid" \in DOMAIN r
             side == IF is_fill THEN ~r.taker_is_bid ELSE r.is_bid
             amount == IF is_fill THEN 0 - r.base_quantity
                       ELSE IF r.status = "Placed" THEN r.quantity
                       ELSE IF r.status = "Modified"
                       THEN 0 - (r.original_quantity - r.quantity)
                       ELSE 0 - r.quantity
         IN  (IF r.price = price /\ side = is_bid
                  /\ r.checkpoint > start /\ r.checkpoint <= end
              THEN amount ELSE 0)
             + SignedSum(Tail(rows), price, is_bid, start, end)

\* The size of the level (price, is_bid) of the book rebuilt from the
\* latest snapshot of `table` and the rows up to `end`.
RebuiltSize(table, price, is_bid, end) ==
    LET last == values_from_orderbook_option(get_latest_snapshot(table))
        side == IF is_bid THEN last.bids ELSE last.asks
    IN  (IF price \in DOMAIN side THEN side[price] ELSE 0)
        + SignedSum(ho_updates \o ho_fills, price, is_bid, last.checkpoint, end)

\* A stored snapshot is a valid book.
ValidSnapshot(snap) ==
    /\ \A q \in DOMAIN snap.asks : snap.asks[q] > 0
    /\ \A q \in DOMAIN snap.bids : snap.bids[q] > 0
    /\ \A a \in DOMAIN snap.asks, b \in DOMAIN snap.bids : b < a

(***************************************************************************)
(* C38: get_historic_orderbook returns a snapshot exactly when             *)
(* end_checkpoint is above the checkpoint of the latest stored snapshot    *)
(* and the rebuilt book has no negative level and every bid with size      *)
(* below every ask with size; the snapshot then holds the levels with      *)
(* size, and store_snapshot appends it.  Otherwise the result is           *)
(* StartGreaterThanEnd, NegativeOrder or Overlap and the table stays as it *)
(* was.  The stored snapshots are valid books with strictly increasing     *)
(* checkpoints.                                                            *)
(***************************************************************************)
OnlyValidSnapshotsStored ==
    /\ \A i \in DOMAIN ho_snapshots : ValidSnapshot(ho_snapshots[i])
    /\ \A i \in 1..(Len(ho_snapshots) - 1) :
        ho_snapshots[i].checkpoint < ho_snapshots[i + 1].checkpoint
    /\ \A k \in DOMAIN ho_last :
        LET call == ho_last[k]
            r == call.result
            end == call.end_checkpoint
            start == values_from_orderbook_option(
                        get_latest_snapshot(call.before)).checkpoint
            size(q, b) == RebuiltSize(call.before, q, b, end)
            rebuilt_ok ==
                /\ \A q \in Prices, b \in BOOLEAN : size(q, b) >= 0
                /\ \A qa, qb \in Prices :
                    (size(qa, FALSE) > 0 /\ size(qb, TRUE) > 0) => qb < qa
        IN  /\ r.ok = (end > start /\ rebuilt_ok)
            /\ r.ok => /\ ho_snapshots = Append(call.before, r.snapshot)
                       /\ r.snapshot.checkpoint = end
                       /\ \A q \in Prices :
                            /\ (q \in DOMAIN r.snapshot.asks) = (size(q, FALSE) # 0)
                            /\ (q \in DOMAIN r.snapshot.bids) = (size(q, TRUE) # 0)
            /\ ~r.ok => /\ ho_snapshots = call.before
                        /\ r.error \in {"StartGreaterThanEnd", "NegativeOrder", "Overlap"}

\* After a run that stored a snapshot, a run for a later checkpoint found a
\* bid at the price of an ask, returned Overlap and stored nothing.
OverlapNotStored ==
    /\ ho_runs = MaxSnapshotRuns
    /\ \E k \in DOMAIN ho_last :
        /\ ~ho_last[k].result.ok
        /\ ho_last[k].result.error = "Overlap"
        /\ ho_last[k].before # <<>>
        /\ ho_last[k].before[Len(ho_last[k].before)].checkpoint > 0
        /\ ho_last[k].end_checkpoint > ho_last[k].before[Len(ho_last[k].before)].checkpoint
        /\ \E q \in Prices :
            /\ RebuiltSize(ho_last[k].before, q, TRUE, ho_last[k].end_checkpoint) > 0
            /\ RebuiltSize(ho_last[k].before, q, FALSE, ho_last[k].end_checkpoint) > 0

\* The order_updates rows of checkpoint c as the engine's OrderUpdate
\* values, and the order_fills rows as its OrderFill values.
UpdatesAt(c) == SelectSeq(ho_updates, LAMBDA r : r.checkpoint = c)

FillsAt(c) == SelectSeq(ho_fills, LAMBDA r : r.checkpoint = c)

RECURSIVE EngineRun(_, _, _)
\* The manager m after handle_batch has been called for every checkpoint
\* from .. upto that has rows, with the rows of that checkpoint.
EngineRun(m, from, upto) ==
    IF from > upto THEN m
    ELSE EngineRun(IF UpdatesAt(from) = <<>> /\ FillsAt(from) = <<>> THEN m
                   ELSE handle_batch(m, UpdatesAt(from), FillsAt(from)),
                   from + 1, upto)

\* The map holds the price -> size mapping of the side.
MapIsSide(map, side) ==
    \A q \in DOMAIN map \cup PricesOf(side) :
        (IF q \in DOMAIN map THEN map[q] ELSE 0) = SizeAt(side, q)

(***************************************************************************)
(* C39: when get_historic_orderbook, started from a stored snapshot S,     *)
(* returns a snapshot for end_checkpoint, its two maps are the price to    *)
(* size mappings of the sides of an OrderbookManager loaded from S after   *)
(* handle_batch has been called, checkpoint after checkpoint, with the     *)
(* persisted updates and fills up to end_checkpoint (those at or below     *)
(* S.checkpoint are offered too and skipped by the manager).               *)
(***************************************************************************)
BuilderAgreesWithEngine ==
    \A k \in DOMAIN ho_last :
        LET call == ho_last[k]
            from == get_latest_snapshot(call.before)
        IN  (call.result.ok /\ from # {})
            => \A S \in from :
                \A m0 \in NewManager(S.asks, S.bids, S.checkpoint) :
                    LET m == EngineRun(m0, 1, call.end_checkpoint)
                    IN  /\ MapIsSide(call.result.snapshot.asks, m.asks)
                        /\ MapIsSide(call.result.snapshot.bids, m.bids)

\* A snapshot has been built on a snapshot an earlier run stored, from an
\* update and a fill above it, while the tables also hold a row at that
\* earlier snapshot's checkpoint; the book has changed.
BuiltOnStoredSnapshot ==
    \E k \in DOMAIN ho_last :
        /\ ho_last[k].result.ok
        /\ ho_last[k].before # <<>>
        /\ LET S == ho_last[k].before[Len(ho_last[k].before)]
               new == ho_last[k].result.snapshot
           IN  /\ S.checkpoint = 1
               /\ new.checkpoint = MaxHistoricCp
               /\ UpdatesAt(1) # <<>>
               /\ UpdatesAt(MaxHistoricCp) # <<>>
               /\ FillsAt(MaxHistoricCp) # <<>>
               /\ new.asks # S.asks
               /\ new.bids # S.bids

(***************************************************************************)
(* SpecSocket: handle_orderbook_socket (server/src/server.rs) for one      *)
(* client, beside the engine's update_orderbook writing the key.  The      *)
(* handler subscribes to the key-space channel of the key, fetches the     *)
(* value, sends it, and then, for every notification, fetches the value    *)
(* again and sends it when it differs from last_sent.  fetch_latest turns  *)
(* an error of the GET (connection, Redis, JSON) into None.  Redis queues  *)
(* a notification for the subscription at every write of the key.          *)
(***************************************************************************)
\* Writes of the key in one run, and the values written.
MaxPublishes == 3

BookVersions == {1, 2}

\* fetch_latest: cache.get(key).await.ok().flatten(), 0 for None.
fetch_latest(key, get_ok) == IF get_ok THEN key ELSE 0

\* What no step of SpecSocket changes.
socket_frame ==
    <<orderbook_vars, trade_vars, decode_vars, commit_vars, watermark_vars,
      pool_vars, shutdown_vars, factor_vars, startup_vars, store_vars,
      historic_vars>>

SocketInit ==
    /\ OrderBookIdle
    /\ TradesIdle
    /\ DecodeIdle
    /\ CommitIdle
    /\ WatermarkIdle
    /\ PoolsIdle
    /\ ShutdownIdle
    /\ FactorsIdle
    /\ StartupIdle
    /\ StoreIdle
    /\ HistoricIdle
    /\ ws_key \in {0} \cup BookVersions
    /\ ws_queue = 0
    /\ ws_pc = "connecting"
    /\ ws_last_sent = 0
    /\ ws_sent = <<>>
    /\ ws_changed = FALSE
    /\ ws_writes = 0

\* update_orderbook of the engine: SET key; Redis notifies the subscription
\* when there is one.
CachePublish ==
    /\ ws_writes < MaxPublishes
    /\ \E v \in BookVersions : ws_key' = v
    /\ ws_writes' = ws_writes + 1
    /\ IF ws_pc \in {"subscribed", "loop"}
       THEN ws_queue' = ws_queue + 1 /\ ws_changed' = TRUE
       ELSE UNCHANGED <<ws_queue, ws_changed>>
    /\ UNCHANGED <<socket_frame, ws_pc, ws_last_sent, ws_sent>>

\* pubsub.subscribe(&channel)
SocketSubscribe ==
    /\ ws_pc = "connecting"
    /\ ws_pc' = "subscribed"
    /\ UNCHANGED <<socket_frame, ws_key, ws_queue, ws_last_sent, ws_sent,
                   ws_changed, ws_writes>>

\* let mut last_sent = fetch_latest().await; the snapshot is sent if
\* present; the notification loop starts.
SocketInitialFetch ==
    /\ ws_pc = "subscribed"
    /\ \E get_ok \in BOOLEAN :
        LET current == fetch_latest(ws_key, get_ok)
        IN  /\ ws_last_sent' = current
            /\ ws_sent' = IF current # 0 THEN Append(ws_sent, current) ELSE ws_sent
    /\ ws_pc' = "loop"
    /\ UNCHANGED <<socket_frame, ws_key, ws_queue, ws_changed, ws_writes>>

\* Some(_msg) = redis_stream.next(), the GET succeeds: the value is sent
\* when it is present and differs from last_sent.
SocketNotification ==
    /\ ws_pc = "loop"
    /\ ws_queue > 0
    /\ ws_queue' = ws_queue - 1
    /\ LET current == fetch_latest(ws_key, TRUE)
       IN  IF current # 0 /\ current # ws_last_sent
           THEN /\ ws_last_sent' = current
                /\ ws_sent' = Append(ws_sent, current)
           ELSE UNCHANGED <<ws_last_sent, ws_sent>>
    /\ UNCHANGED <<socket_frame, ws_key, ws_pc, ws_changed, ws_writes>>

\* Some(_msg) = redis_stream.next(), the GET fails: fetch_latest is None
\* and the notification is dropped.
SocketNotificationFetchFailed ==
    /\ ws_pc = "loop"
    /\ ws_queue > 0
    /\ ws_queue' = ws_queue - 1
    /\ fetch_latest(ws_key, FALSE) = 0
    /\ UNCHANGED <<socket_frame, ws_key, ws_pc, ws_last_sent, ws_sent,
                   ws_changed, ws_writes>>

\* socket.recv() returns None: the client has closed the connection.
SocketClosed ==
    /\ ws_pc = "loop"
    /\ ws_pc' = "closed"
    /\ UNCHANGED <<socket_frame, ws_key, ws_queue, ws_last_sent, ws_sent,
                   ws_changed, ws_writes>>

SocketNext ==
    \/ CachePublish
    \/ SocketSubscribe
    \/ SocketInitialFetch
    \/ SocketNotification
    \/ SocketNotificationFetchFailed
    \/ SocketClosed

\* The runtime keeps polling the handler's task, and select! takes a ready
\* branch: a step of the handler that stays possible is taken, whatever
\* the outcome of its GET.
SpecSocket ==
    /\ SocketInit
    /\ [][SocketNext]_vars
    /\ WF_vars(SocketSubscribe)
    /\ WF_vars(SocketInitialFetch)
    /\ WF_vars(SocketNotification \/ SocketNotificationFetchFailed)

(***************************************************************************)
(* C40: when the key has been written after the subscription, then from    *)
(* some point on the connection is closed or the last message sent to the  *)
(* subscriber is the value of the key.                                     *)
(***************************************************************************)
SubscriberGetsLatest ==
    <>[](ws_changed => (ws_pc = "closed" \/ ws_last_sent = ws_key))

====
